---- MODULE Spec2Model ----
(***************************************************************************)
(* A model of netgraph's layout engine: edge routing (straight, curved,    *)
(* arced, bundled), the edge drawing dispatchers, the edge compatibility   *)
(* score of the bundler and the Fruchterman-Reingold node layout.          *)
(*                                                                         *)
(* Numbers.  The program computes in IEEE doubles.  The model computes in  *)
(* fixed point: a coordinate or a length is an integer number of Unit-ths  *)
(* of the canvas (0.3 is 300), a dimensionless factor (a compatibility, a  *)
(* ratio) is an integer number of Unit-ths as well.  Quotients of doubles  *)
(* round towards zero.  A division the program performs by zero gives      *)
(* the non-finite value it gives in numpy: NaN for 0/0, +Inf or -Inf       *)
(* otherwise; the three are integers outside the range of every finite     *)
(* value of the model.                                                     *)
(***************************************************************************)
EXTENDS Integers, Sequences, FiniteSets, TLC

\* ------------------------------------------------------------------ bounds

\* The edge lists have at most MaxEdges edges.
MaxEdges == 2

\* The parameters of the bundler that the model runs with: the number of
\* cycles and the number of iterations of the first cycle.  The node layout
\* runs with no iteration or with TotalIterations of them.
TotalCycles == 2
TotalIterations == 2

\* ----------------------------------------------------------------- numbers

\* One canvas unit, in model units (fixed point with three decimals).
Unit == 10 * 100

NaN == 0 - 2000000000
PosInf == 2000000000 - 1
NegInf == 0 - PosInf

IsFinite(x) == x # NaN /\ x # PosInf /\ x # NegInf

\* The element of a one-element set.  A value that is computed once and used
\* many times is drawn from the set of that one value, { ... : v \in {value} }.
The(S) == CHOOSE x \in S : TRUE

Abs(x) == IF x < 0 THEN 0 - x ELSE x

\* The largest r with r * r <= n, for 0 <= n: numpy's sqrt, rounded down.
RECURSIVE SqrtBits(_, _, _)
SqrtBits(n, r, b) ==
    IF b = 0 THEN r
    ELSE IF (r + b) <= n \div (r + b) THEN SqrtBits(n, r + b, b \div 2)
         ELSE SqrtBits(n, r, b \div 2)

ISqrt(n) == SqrtBits(n, 0, 32768)

\* The arithmetic of doubles on the values of the model.  A division by zero
\* is no error in numpy: it gives nan (0/0) or an infinity.
IsInf(x) == x = PosInf \/ x = NegInf
Sign(x) == IF x = PosInf \/ x > 0 THEN 1 ELSE IF x = NegInf \/ x < 0 THEN 0 - 1 ELSE 0
Signed(sg) == IF sg > 0 THEN PosInf ELSE IF sg < 0 THEN NegInf ELSE NaN

FNeg(x) == IF x = NaN THEN NaN ELSE IF x = PosInf THEN NegInf
           ELSE IF x = NegInf THEN PosInf ELSE 0 - x

FAdd(x, y) ==
    IF x = NaN \/ y = NaN THEN NaN
    ELSE IF IsInf(x) THEN (IF IsInf(y) /\ y # x THEN NaN ELSE x)
    ELSE IF IsInf(y) THEN y
    ELSE x + y

FSub(x, y) == FAdd(x, FNeg(y))

\* The product of two model values, not rescaled.
FMul(x, y) ==
    IF x = NaN \/ y = NaN THEN NaN
    ELSE IF IsInf(x) \/ IsInf(y) THEN Signed(Sign(x) * Sign(y))
    ELSE x * y

\* The quotient of two model values, not rescaled, rounded towards zero: the
\* rounding of a double does not depend on the sign, so that (-x) / y is
\* -(x / y).
FDiv(x, y) ==
    IF x = NaN \/ y = NaN THEN NaN
    ELSE IF IsInf(y) THEN (IF IsInf(x) THEN NaN ELSE 0)
    ELSE IF IsInf(x) THEN Signed(IF y < 0 THEN 0 - Sign(x) ELSE Sign(x))
    ELSE IF y = 0 THEN Signed(Sign(x))
    ELSE IF (x < 0) = (y < 0) THEN Abs(x) \div Abs(y)
    ELSE 0 - (Abs(x) \div Abs(y))

\* x < y on doubles: every comparison with nan is false.
FLt(x, y) ==
    IF x = NaN \/ y = NaN THEN FALSE
    ELSE IF x = y THEN FALSE
    ELSE IF x = NegInf \/ y = PosInf THEN TRUE
    ELSE IF x = PosInf \/ y = NegInf THEN FALSE
    ELSE x < y

\* Python's built-in min(x, y) and max(x, y): the first argument is kept
\* unless the second compares smaller (larger), so a nan in first place stays.
PyMin(x, y) == IF FLt(y, x) THEN y ELSE x
PyMax(x, y) == IF FLt(x, y) THEN y ELSE x

\* A point or a vector is a pair <<x, y>>.
Norm(v) == ISqrt(v[1] * v[1] + v[2] * v[2])

Sub(p, q) == <<p[1] - q[1], p[2] - q[2]>>
Add(p, q) == <<p[1] + q[1], p[2] + q[2]>>
Dot(p, q) == p[1] * q[1] + p[2] * q[2]

\* p + q where a coordinate may be non-finite.
FAddPt(p, q) == <<FAdd(p[1], q[1]), FAdd(p[2], q[2])>>
FinitePt(p) == IsFinite(p[1]) /\ IsFinite(p[2])

\* ------------------------------------------------------------------ inputs

\* The node identifiers.
Nodes == {1, 2, 3}
Edges == Nodes \X Nodes

\* The node positions are corners of a 0.36 x 0.48 rectangle, whose sides and
\* diagonals have the lengths 0.36, 0.48 and 0.60: every distance between two
\* nodes is a whole number of model units, and so are the points that divide
\* an edge into 2, 3, 4, 5 or 8 equal parts.  Two nodes may share a corner.
Corners == {<<0, 0>>, <<360, 0>>, <<0, 480>>, <<360, 480>>}
Layouts == {f \in [Nodes -> Corners] : f[1] = <<0, 0>>}

RECURSIVE SeqsUpTo(_, _)
SeqsUpTo(S, n) ==
    IF n = 0 THEN {<<>>}
    ELSE LET shorter == SeqsUpTo(S, n - 1)
         IN  shorter \cup {Append(q, x) : q \in {r \in shorter : Len(r) = n - 1}, x \in S}

EdgeLists == SeqsUpTo(Edges, MaxEdges)

Range(q) == {q[i] : i \in 1 .. Len(q)}
Reverse(q) == [i \in 1 .. Len(q) |-> q[Len(q) + 1 - i]]
IsSelfloop(e) == e[1] = e[2]
Rev(e) == <<e[2], e[1]>>

\* Edge widths as draw_edges hands them on, i.e. multiplied by BASE_EDGE_WIDTH
\* (0.01): the widths 1.0 and 2.0 are 10 and 20 model units.  Every edge of a
\* call has the same width.
EdgeWidths == {10, 20}

\* ------------------------------------------------------------------- state

VARIABLES
    edge_list,        \* the edge list given to the call
    node_positions,   \* node -> position
    pc,               \* "start", then "done" (or "raised")
    call,             \* the function that ran
    edge_width,       \* the edge width of the call
    edge_paths,       \* the returned mapping edge -> path
    control_points,   \* edge -> its chain of control points before smoothing
    warned,           \* the edges a warning was issued for
    edge_layout,      \* the name of the routing strategy given to the call, and
                      \* whether it is the very string object of the literal
    edge_artists,     \* the edges an artist was created for
    raised,           \* the exception the call ended with, or "none"
    segments,         \* the two segments P, Q whose compatibility is computed
    scores,           \* their factors and score, for (P, Q) and for (Q, P)
    arguments,        \* the arguments of the layout call
    pos,              \* the array of positions the solver works on, per node
    solver_t,         \* the temperature t of the solver
    dt,               \* the step the temperature falls by
    iteration,        \* the iterations of the solver that are done
    returned,         \* the node positions the layout call returned
    solutions,        \* what the dense and the sparse solver did with one input
    second_paths,     \* what a second call with the same arguments returned
    component_calls,  \* the calls of the layout function the wrapper made, each
                      \* with its arguments and result, and how often it was made
    bundle,           \* the loop of get_bundled_edge_paths: the order of the edges,
                      \* the cycles done, whether the chains of this cycle are
                      \* subdivided, the iterations done in it, total_iterations,
                      \* step_size, the chains before the last subdivision, and
                      \* the iterations and step size of every cycle done
    handler           \* an interactive class: its attributes, and the properties
                      \* of its artists

drawVars == <<edge_layout, edge_artists, raised>>
compatVars == <<segments, scores>>
layoutVars == <<arguments, pos, solver_t, dt, iteration, returned, solutions>>
traceVars == <<second_paths, component_calls, bundle, handler>>
vars == <<edge_list, node_positions, pc, call, edge_width, edge_paths, control_points,
          warned, drawVars, compatVars, layoutVars, traceVars>>

NoPaths == [e \in {} |-> <<>>]
NoLayout == [n \in {} |-> <<0, 0>>]
NoArguments == [pos_given |-> FALSE, pos |-> NoLayout, fixed_given |-> FALSE, fixed |-> {},
                weights |-> "float", iterations |-> 0, solver |-> "dense",
                scale |-> 10 * 100, center |-> <<0, 0>>]
NoCalls == <<>>
NoBundle == [edges |-> <<>>, order |-> <<>>, cycle |-> 0, expanded |-> FALSE, iteration |-> 0,
             total_iterations |-> 0, step_size |-> 0, previous |-> NoPaths, schedule |-> <<>>,
             straightened |-> FALSE, straighten_by |-> 0]
NoHandler == [class |-> "none"]
NoTrace ==
    /\ second_paths = NoPaths /\ component_calls = NoCalls /\ bundle = NoBundle
    /\ handler = NoHandler
NoLayoutCall ==
    /\ arguments = NoArguments
    /\ pos = NoLayout /\ solver_t = 0 /\ dt = 0 /\ iteration = 0
    /\ returned = NoLayout
    /\ solutions = <<>>

\* ------------------------------------------------ straight routing (_main.py)

\* A slip that shifts along the segment instead of across it.
ShiftEdgeAlong(p1, p2, delta) ==
    The({<<FAddPt(p1, d), FAddPt(p2, d)>> :
         d \in {The({<<FDiv(FMul(delta, FDiv(v[1] * Unit, n)), Unit),
                       FDiv(FMul(delta, FDiv(v[2] * Unit, n)), Unit)>> :
                      v \in {Sub(p2, p1)}, n \in {Norm(Sub(p2, p1))}})}})

\* _shift_edge: the parallel to the segment p1 p2 at the distance delta.  The
\* unit vector is v / norm(v); coincident points divide 0 by 0.
ShiftEdge(p1, p2, delta) ==
    The({<<FAddPt(p1, d), FAddPt(p2, d)>> :
         d \in {The({<<FDiv(FMul(delta, FDiv(v[1] * Unit, n)), Unit),
                       FDiv(FMul(delta, FDiv(v[2] * Unit, n)), Unit)>> :
                      v \in {<<p1[2] - p2[2], p2[1] - p1[1]>>},
                      n \in {Norm(<<p1[2] - p2[2], p2[1] - p1[1]>>)}})}})

\* A slip that shifts every edge, bidirectional or not.
StraightPathAlwaysShifted(e, edges, positions, width) ==
    ShiftEdge(positions[e[1]], positions[e[2]], 0 - (width \div 2))

\* One pass of the loop of _get_straight_edge_paths, for one edge.
StraightPathMain(e, edges, positions, width) ==
    IF Rev(e) \in Range(edges)
    THEN ShiftEdge(positions[e[1]], positions[e[2]], 0 - (width \div 2))
    ELSE <<positions[e[1]], positions[e[2]]>>

\* _get_straight_edge_paths: self-loops are skipped with a warning.
GetStraightEdgePathsMain(edges, positions, width) ==
    [e \in {x \in Range(edges) : ~IsSelfloop(x)} |->
        StraightPathMain(e, edges, positions, width)]

RouteStraightMain ==
    /\ pc = "start"
    /\ \E w \in EdgeWidths :
        /\ edge_width' = w
        /\ edge_paths' = GetStraightEdgePathsMain(edge_list, node_positions, w)
    /\ warned' = {x \in Range(edge_list) : IsSelfloop(x)}
    /\ call' = "_get_straight_edge_paths"
    /\ pc' = "done"
    /\ UNCHANGED <<traceVars, edge_list, node_positions, control_points, drawVars, compatVars, layoutVars>>

\* ------------------------------------------- straight routing (_edge_layout.py)

\* _get_straight_nonloop_edge_paths.
GetStraightNonloopEdgePaths(edges, positions) ==
    [e \in Range(edges) |-> <<positions[e[1]], positions[e[2]]>>]

Nonloops(edges) == SelectSeq(edges, LAMBDA e : ~IsSelfloop(e))
Selfloops(edges) == SelectSeq(edges, LAMBDA e : IsSelfloop(e))

RouteStraightNonloops ==
    /\ pc = "start"
    /\ edge_paths' = GetStraightNonloopEdgePaths(Nonloops(edge_list), node_positions)
    /\ call' = "_get_straight_nonloop_edge_paths"
    /\ pc' = "done"
    /\ UNCHANGED <<traceVars, edge_list, node_positions, edge_width, control_points, warned, drawVars,
                   compatVars, layoutVars>>

\* The radius 0.1 of a self-loop, and the angles 0, pi/2, pi and 3 pi/2 as
\* their (cos, sin).
SelfloopRadius == Unit \div 10
SelfloopAngles == {<<1, 0>>, <<0, 1>>, <<0 - 1, 0>>, <<0, 0 - 1>>}

Rot90(v) == <<0 - v[2], v[1]>>

\* The points of a circle at the quarter turns after the start direction
\* (the first point, in the start direction itself, is dropped).
GetNPointsOnACircle(center, radius, start) ==
    <<Add(center, <<radius * Rot90(start)[1], radius * Rot90(start)[2]>>),
      Add(center, <<0 - radius * start[1], 0 - radius * start[2]>>),
      Sub(center, <<radius * Rot90(start)[1], radius * Rot90(start)[2]>>)>>

\* _get_selfloop_path: a circle around source_position + radius * unit_vector
\* that starts opposite to the direction in which the loop extends.
GetSelfloopPath(source_position, radius, angle) ==
    GetNPointsOnACircle(Add(source_position, <<radius * angle[1], radius * angle[2]>>),
                        radius, <<0 - angle[1], 0 - angle[2]>>)

\* The points to avoid: the ends and the middle of every path.
Resampled(paths) ==
    UNION {{paths[e][1], paths[e][2],
            <<(paths[e][1][1] + paths[e][2][1]) \div 2,
              (paths[e][1][2] + paths[e][2][2]) \div 2>>} : e \in DOMAIN paths}

\* The squared distance of a point to the nearest of the points to avoid.
Clearance(point, avoid) ==
    LET d(a) == Dot(Sub(point, a), Sub(point, a))
    IN  The({d(a) : a \in {b \in avoid : \A c \in avoid : d(b) <= d(c)}})

\* _get_optimal_selfloop_angles: for every self-loop an angle whose loop
\* centre is farthest from the points to avoid; the concatenation of the
\* resampled paths fails when there is no path.
GetOptimalSelfloopAngles(selfloops, radius, positions, paths) ==
    {f \in [Range(selfloops) -> SelfloopAngles] :
        \A e \in Range(selfloops) : \A other \in SelfloopAngles :
            Clearance(Add(positions[e[1]], <<radius * other[1], radius * other[2]>>),
                      Resampled(paths))
            <= Clearance(Add(positions[e[1]], <<radius * f[e][1], radius * f[e][2]>>),
                         Resampled(paths))}

\* get_straight_edge_paths: straight lines for the other edges, circles next
\* to the node for the self-loops.
GetStraightEdgePaths ==
    /\ pc = "start"
    /\ call' = "get_straight_edge_paths"
    /\ \E given \in BOOLEAN, angle \in SelfloopAngles :
        /\ given \/ angle = <<1, 0>>
        /\ arguments' = [selfloop_radius |-> SelfloopRadius, selfloop_angle_given |-> given,
                         selfloop_angle |-> angle]
        /\ \E nonloop_edge_paths \in
                {GetStraightNonloopEdgePaths(Nonloops(edge_list), node_positions)} :
            IF Selfloops(edge_list) = <<>>
            THEN /\ edge_paths' = nonloop_edge_paths
                 /\ pc' = "done" /\ UNCHANGED raised
            ELSE IF ~given /\ DOMAIN nonloop_edge_paths = {}
            THEN /\ pc' = "raised" /\ raised' = "ValueError"
                 /\ UNCHANGED edge_paths
            ELSE \E selfloop_angle \in
                        (IF given THEN {[e \in Range(Selfloops(edge_list)) |-> angle]}
                         ELSE GetOptimalSelfloopAngles(Selfloops(edge_list), SelfloopRadius,
                                                       node_positions, nonloop_edge_paths)) :
                    /\ edge_paths' =
                           [e \in Range(edge_list) |->
                               IF IsSelfloop(e)
                               THEN GetSelfloopPath(node_positions[e[1]], SelfloopRadius,
                                                    selfloop_angle[e])
                               ELSE nonloop_edge_paths[e]]
                    /\ pc' = "done" /\ UNCHANGED raised
    /\ UNCHANGED <<traceVars, edge_list, node_positions, edge_width, control_points, warned, edge_layout,
                   edge_artists, compatVars, pos, solver_t, dt, iteration, returned, solutions>>

\* ------------------------------------- edge compatibility (_edge_layout.py)

\* Vectors whose coordinates may be non-finite.
FSubPt(p, q) == <<FSub(p[1], q[1]), FSub(p[2], q[2])>>
FNorm(v) ==
    IF v[1] = NaN \/ v[2] = NaN THEN NaN
    ELSE IF IsInf(v[1]) \/ IsInf(v[2]) THEN PosInf
    ELSE Norm(v)

\* Segment.__init__.  The midpoint is computed as written, p0 * 0.5 * vector,
\* an elementwise product.
Segment(p0, p1) ==
    The({The({[p0 |-> p0, p1 |-> p1, vector |-> vector, length |-> length,
               unit_vector |-> <<FDiv(FMul(vector[1], Unit), length),
                                 FDiv(FMul(vector[2], Unit), length)>>,
               midpoint |-> <<FDiv(FMul(p0[1], vector[1]), 2 * Unit),
                              FDiv(FMul(p0[2], vector[2]), 2 * Unit)>>] :
              length \in {FNorm(vector)}}) :
         vector \in {FSubPt(p1, p0)}})

\* Segment.get_orthogonal_projection_onto_segment.
GetOrthogonalProjectionOntoSegment(P, point) ==
    The({<<FAdd(P.p0[1], FDiv(FMul(t, P.vector[1]), Unit)),
           FAdd(P.p0[2], FDiv(FMul(t, P.vector[2]), Unit))>> :
         t \in {The({FDiv(FMul(FAdd(FMul(d[1], P.vector[1]), FMul(d[2], P.vector[2])), Unit),
                          FMul(P.length, P.length)) :
                      d \in {FSubPt(point, P.p0)}})}})

\* _get_angle_compatibility: |clip(dot(P.unit_vector, Q.unit_vector), -1, 1)|.
GetAngleCompatibility(P, Q) ==
    The({IF dot = NaN THEN NaN
         ELSE Abs(IF dot < 0 - Unit THEN 0 - Unit ELSE IF Unit < dot THEN Unit ELSE dot) :
         dot \in {FDiv(FAdd(FMul(P.unit_vector[1], Q.unit_vector[1]),
                            FMul(P.unit_vector[2], Q.unit_vector[2])), Unit)}})

\* _get_scale_compatibility: 2 / (avg / min + max / avg), avg the mean length.
GetScaleCompatibility(P, Q) ==
    The({FDiv(2 * Unit * Unit,
              FAdd(FDiv(FMul(sum, Unit), FMul(2, PyMin(P.length, Q.length))),
                   FDiv(FMul(FMul(2, PyMax(P.length, Q.length)), Unit), sum))) :
         sum \in {FAdd(P.length, Q.length)}})                  \* 2 * avg

\* _get_position_compatibility: avg / (avg + |Q.midpoint - P.midpoint|).
GetPositionCompatibility(P, Q) ==
    The({FDiv(FMul(sum, Unit),
              FAdd(sum, FMul(2, FNorm(FSubPt(Q.midpoint, P.midpoint))))) :
         sum \in {FAdd(P.length, Q.length)}})                  \* 2 * avg

\* _get_visibility.
GetVisibility(P, Q) ==
    The({The({PyMax(visibility, 0) :
              visibility \in
                  {FSub(Unit, FDiv(FMul(FMul(2, FNorm(FSubPt(P.midpoint, I.midpoint))), Unit),
                                   I.length))}}) :
         I \in {The({Segment(I0, I1) :
                     I0 \in {GetOrthogonalProjectionOntoSegment(P, Q.p0)},
                     I1 \in {GetOrthogonalProjectionOntoSegment(P, Q.p1)}})}})

\* A slip that looks from one side only.
GetVisibilityCompatibilityOneSided(P, Q) == GetVisibility(P, Q)

\* _get_visibility_compatibility.
GetVisibilityCompatibility(P, Q) ==
    The({PyMin(forth, back) : forth \in {GetVisibility(P, Q)}, back \in {GetVisibility(Q, P)}})

\* The product of two factors (both in Unit-ths).
Times(c, f) == FDiv(FMul(c, f), Unit)

\* _get_edge_compatibility, for one pair: the product is built factor by
\* factor and the pair is dropped (Dropped) as soon as it is below threshold.
Dropped == 0 - 1

PairCompatibility(P, Q, threshold) ==
    The({IF FLt(c1, threshold) THEN Dropped
         ELSE The({IF FLt(c2, threshold) THEN Dropped
                   ELSE The({IF FLt(c3, threshold) THEN Dropped
                             ELSE The({IF FLt(c4, threshold) THEN Dropped ELSE c4 :
                                       c4 \in {Times(c3, GetVisibilityCompatibility(P, Q))}}) :
                             c3 \in {Times(c2, GetAngleCompatibility(P, Q))}}) :
                   c2 \in {Times(c1, GetPositionCompatibility(P, Q))}}) :
         c1 \in {GetScaleCompatibility(P, Q)}})

\* Whether one of the two chains has to be walked backwards.
PairReverse(P, Q) ==
    The({FLt(crossed, straight) :
         crossed \in {PyMin(FNorm(FSubPt(P.p0, Q.p1)), FNorm(FSubPt(P.p1, Q.p0)))},
         straight \in {PyMin(FNorm(FSubPt(P.p0, Q.p0)), FNorm(FSubPt(P.p1, Q.p1)))}})

EdgeSegment(e, positions) == Segment(positions[e[1]], positions[e[2]])

\* _get_edge_compatibility: the kept pairs of itertools.combinations(edges, 2),
\* each with its compatibility and its reverse flag.
GetEdgeCompatibility(edges, positions, threshold) ==
    {pair \in UNION {{[e1 |-> edges[ij[1]], e2 |-> edges[ij[2]],
                       compatibility |-> PairCompatibility(P, Q, threshold),
                       reverse |-> PairReverse(P, Q)] :
                          P \in {EdgeSegment(edges[ij[1]], positions)},
                          Q \in {EdgeSegment(edges[ij[2]], positions)}} :
                     ij \in {x \in (1 .. Len(edges)) \X (1 .. Len(edges)) : x[1] < x[2]}} :
        pair.compatibility # Dropped}

\* ---------------------------------------------- bundling (_edge_layout.py)

\* The first direction of every pair, in the order of the edge list: the edge
\* (s,t) is canonical unless (t,s) was taken before it.
RECURSIVE UnidirectionalFrom(_, _, _)
UnidirectionalFrom(edges, i, taken) ==
    IF i > Len(edges) THEN taken
    ELSE IF Rev(edges[i]) \in Range(taken) \/ edges[i] \in Range(taken)
         THEN UnidirectionalFrom(edges, i + 1, taken)
         ELSE UnidirectionalFrom(edges, i + 1, Append(taken, edges[i]))

UnidirectionalEdges(edges) == UnidirectionalFrom(edges, 1, <<>>)
ReverseEdges(edges) == Range(edges) \ Range(UnidirectionalEdges(edges))

\* _get_k: the stiffness k / length of every edge (a plain number).
GetK(e, positions, k) ==
    FDiv(k * Unit, FNorm(FSubPt(positions[e[2]], positions[e[1]])))

\* _initialize_bundled_control_points.
InitializeBundledControlPoints(edges, positions) ==
    [e \in Range(edges) |-> <<positions[e[1]], positions[e[2]]>>]

FMid(p1, p2) == <<FAdd(FDiv(FSub(p2[1], p1[1]), 2), p1[1]),
                  FAdd(FDiv(FSub(p2[2], p1[2]), 2), p1[2])>>

\* A slip that repeats the old point where the midpoint belongs.
ExpandChainRepeating(old) ==
    [ii \in 1 .. (2 * (Len(old) - 1) + 1) |-> old[(ii + 1) \div 2]]

\* _expand_control_points, for one chain: the old points at the even (0-based)
\* indices, the midpoint 0.5 * (p2 - p1) + p1 of its neighbours at the odd ones.
ExpandChain(old) ==
    [ii \in 1 .. (2 * (Len(old) - 1) + 1) |->
        IF ii % 2 = 1 THEN old[(ii + 1) \div 2]
        ELSE FMid(old[ii \div 2], old[ii \div 2 + 1])]

\* (A value is drawn from a one-element set where that fixes it before it is
\* used many times.)
ExpandControlPoints(chains) ==
    CHOOSE new \in {[e \in DOMAIN c |-> ExpandChain(c[e])] : c \in {chains}} : TRUE

ZeroVec == <<0, 0>>
FScale(c, v) == <<FMul(c, v[1]), FMul(c, v[2])>>
FNegPt(v) == <<FNeg(v[1]), FNeg(v[2])>>

\* _get_Fs, for one chain: kp * (diff[i] - diff[i-1]) at the interior points,
\* zero at the two ends.
ChainFs(chain, k_edge) ==
    The({[i \in 1 .. Len(chain) |->
             IF i = 1 \/ i = Len(chain) THEN FScale(kp, ZeroVec)
             ELSE FScale(kp, FSubPt(FSubPt(chain[i + 1], chain[i]),
                                    FSubPt(chain[i], chain[i - 1])))] :
         kp \in {FDiv(k_edge, Len(chain) - 1)}})

\* The displacement of one pair in _get_Fe: compatibility * delta / distance^2
\* pointwise, set to zero at the first and the last control point.
PairDisplacement(P, Q, compatibility, reverse) ==
    [i \in 1 .. Len(P) |->
        IF i = 1 \/ i = Len(P) THEN ZeroVec
        ELSE The({The({<<FDiv(FMul(FMul(compatibility, delta[1]), Unit), d2),
                         FDiv(FMul(FMul(compatibility, delta[2]), Unit), d2)>> :
                       d2 \in {FAdd(FMul(delta[1], delta[1]), FMul(delta[2], delta[2]))}}) :
                  delta \in {FSubPt(IF reverse THEN Q[Len(P) + 1 - i] ELSE Q[i], P[i])}})]

AddSeq(F, D) == [i \in 1 .. Len(F) |-> FAddPt(F[i], D[i])]
SubSeq2(F, D) == [i \in 1 .. Len(F) |-> FSubPt(F[i], D[i])]

\* _get_Fe: the displacement of every pair is added to its first edge and
\* subtracted (reversed if the pair is reversed) from its second edge.
RECURSIVE GetFe(_, _, _)
GetFe(chains, pairs, out) ==
    IF pairs = {} THEN out
    ELSE The({The({GetFe(chains, pairs \ {pr},
                         [out EXCEPT ![pr.e1] = AddSeq(@, displacement),
                                     ![pr.e2] = SubSeq2(@, IF pr.reverse
                                                           THEN Reverse(displacement)
                                                           ELSE displacement)]) :
                   displacement \in {PairDisplacement(chains[pr.e1], chains[pr.e2],
                                                      pr.compatibility, pr.reverse)}}) :
              pr \in {CHOOSE x \in pairs : TRUE}})

\* The norm of a whole array of vectors (numpy's norm of a matrix), computed
\* on entries scaled down so that the squares stay in range.
RECURSIVE SumSquares(_, _, _)
SumSquares(F, i, sc) ==
    IF i > Len(F) THEN 0
    ELSE (F[i][1] \div sc) * (F[i][1] \div sc) + (F[i][2] \div sc) * (F[i][2] \div sc)
         + SumSquares(F, i + 1, sc)

RECURSIVE MaxAbs(_, _)
MaxAbs(F, i) ==
    IF i > Len(F) THEN 0
    ELSE The({IF a > m THEN a ELSE m :
              m \in {MaxAbs(F, i + 1)},
              a \in {IF Abs(F[i][1]) > Abs(F[i][2]) THEN Abs(F[i][1]) ELSE Abs(F[i][2])}})

MatrixNorm(F) ==
    IF \E i \in 1 .. Len(F) : F[i][1] = NaN \/ F[i][2] = NaN THEN NaN
    ELSE IF \E i \in 1 .. Len(F) : IsInf(F[i][1]) \/ IsInf(F[i][2]) THEN PosInf
    ELSE The({ISqrt(SumSquares(F, 1, sc)) * sc : sc \in {MaxAbs(F, 1) \div 4096 + 1}})

\* A slip that moves the end points with the rest of the chain.
MoveChainFreely(chain, displacement, step_size) ==
    [i \in 1 .. Len(chain) |-> FAddPt(chain[i], <<step_size, step_size>>)]

\* _update_control_point_positions, for one chain: the displacement of the
\* chain is scaled to the length min(length, step_size), its length being the
\* norm of the whole array, floored at 1e-12.
MoveChain(chain, displacement, step_size) ==
    LET scaled(x, displacement_length) ==
            IF displacement_length = 0 THEN 0
            ELSE IF IsFinite(x) /\ IsFinite(displacement_length) /\ Abs(x) > Unit * Unit
                 THEN FDiv(FMul(x \div 1024, PyMin(displacement_length, step_size)),
                           displacement_length \div 1024)
            ELSE FDiv(FMul(x, PyMin(displacement_length, step_size)), displacement_length)
    IN  The({[i \in 1 .. Len(chain) |->
                 The({FAddPt(chain[i], <<scaled(d[1], len), scaled(d[2], len)>>) :
                      d \in {displacement[i]}})] :
             len \in {MatrixNorm(displacement)}})

\* One pass of the inner loop of get_bundled_edge_paths: _get_Fs, _get_Fe,
\* _update_control_point_positions.
\* The net force F on every control point: _get_Fs, then _get_Fe on top.
NetForce(chains, edge_to_k, pairs) ==
    GetFe(chains, pairs, [e \in DOMAIN chains |-> ChainFs(chains[e], edge_to_k[e])])

ForceUpdate(chains, edge_to_k, pairs, step_size) ==
    LET moved(c, F) == [e \in DOMAIN c |-> MoveChain(c[e], F[e], step_size)]
    IN  CHOOSE new \in UNION {{moved(c, F) : F \in {NetForce(c, edge_to_k, pairs)}} :
                              c \in {chains}} :
            TRUE

RECURSIVE ForceUpdates(_, _, _, _, _)
ForceUpdates(chains, edge_to_k, pairs, step_size, n) ==
    IF n = 0 THEN chains
    ELSE ForceUpdates(ForceUpdate(chains, edge_to_k, pairs, step_size),
                      edge_to_k, pairs, step_size, n - 1)

\* A slip that keeps the number of iterations.
SameIterations(total_iterations) == total_iterations

\* total_iterations = int(2/3 * total_iterations).
NextIterations(total_iterations) == (2 * total_iterations) \div 3

\* The value of total_iterations in each of the cycles.
RECURSIVE IterationsOfCycles(_, _)
IterationsOfCycles(total_iterations, total_cycles) ==
    IF total_cycles = 0 THEN <<>>
    ELSE <<total_iterations>>
             \o IterationsOfCycles(NextIterations(total_iterations), total_cycles - 1)

\* The cycles of get_bundled_edge_paths: subdivide, update total_iterations
\* times, then halve the step size and cut the iterations to int(2/3 * n).
RECURSIVE BundleCycles(_, _, _, _, _, _)
BundleCycles(chains, edge_to_k, pairs, cycles, total_iterations, step_size) ==
    IF cycles = 0 THEN chains
    ELSE BundleCycles(
            ForceUpdates(ExpandControlPoints(chains), edge_to_k, pairs,
                         step_size, total_iterations),
            edge_to_k, pairs, cycles - 1,
            NextIterations(total_iterations), step_size \div 2)

\* The defaults of get_bundled_edge_paths: k = 500, compatibility_threshold =
\* 0.05 and step_size = 0.04; and the number of samples of a smoothed path.
DefaultK == 5 * 100
CompatibilityThreshold == Unit \div 20
StepSize == Unit \div 25
TotalPoints == 10 * 10

\* The orders a set of edges can be walked in.
Orders(S) ==
    {q \in [1 .. Cardinality(S) -> S] : \A i, j \in DOMAIN q : q[i] = q[j] => i = j}

\* get_bundled_edge_paths up to the smoothing, for the edges of one component:
\* self-loops and reverse edges are filtered out, the others are walked in the
\* order of the set unidirectional_edges.
BundledControlPoints(edges, positions, order) ==
    LET edge_to_k == [e \in Range(order) |-> GetK(e, positions, DefaultK)]
        edge_compatibility == GetEdgeCompatibility(order, positions, CompatibilityThreshold)
    IN  CHOOSE chains \in
            {BundleCycles(InitializeBundledControlPoints(order, positions), k, pairs,
                          TotalCycles, TotalIterations, StepSize) :
                k \in {edge_to_k}, pairs \in {edge_compatibility}} : TRUE

\* Whether every point of the chain is finite and within rounding of the
\* straight line between its two different ends.
IsStraight(chain) ==
    /\ \A i \in DOMAIN chain : FinitePt(chain[i])
    /\ chain[1] # chain[Len(chain)]
    /\ LET d == Sub(chain[Len(chain)], chain[1])
       IN  \A i \in DOMAIN chain :
               Abs(d[1] * (chain[i][2] - chain[1][2]) - d[2] * (chain[i][1] - chain[1][1]))
                   <= 2 * Norm(d)

IsDegenerate(chain) ==
    \/ \E i \in DOMAIN chain : ~FinitePt(chain[i])
    \/ \A i \in DOMAIN chain : chain[i] = chain[1]

\* n samples along a chain, the first and the last sample being its ends.
Resample(chain, n) ==
    [j \in 1 .. n |->
        LET t   == (j - 1) * (Len(chain) - 1)
            idx == t \div (n - 1) + 1
            rem == t % (n - 1)
        IN  IF rem = 0 THEN chain[idx]
            ELSE <<chain[idx][1] + ((chain[idx + 1][1] - chain[idx][1]) * rem) \div (n - 1),
                   chain[idx][2] + ((chain[idx + 1][2] - chain[idx][2]) * rem) \div (n - 1)>>]

\* The residuals a smoothing spline with s = 0.001 can leave at a data point:
\* the sum of the squared residuals is at most s, so each is at most
\* sqrt(0.001) = 0.0316.
SmoothResidual == 31
SmoothResiduals == {0 - SmoothResidual, 0, SmoothResidual}

\* A slip that samples the path from its second control point on.
SmoothPathFromSecond(path, r0, r1) == Resample(Tail(path), TotalPoints)

\* _smooth_path: UnivariateSpline(distance, coords, k=3, s=.001) per coordinate,
\* evaluated at 100 values.  The spline is exact on a straight chain; on a bent
\* one it approximates the points, leaving the residuals r0 and r1 at the ends.
SmoothPath(path, r0, r1) ==
    IF IsStraight(path) THEN Resample(path, TotalPoints)
    ELSE [Resample(path, TotalPoints) EXCEPT ![1] = Add(@, <<r0, r0>>),
                                             ![TotalPoints] = Add(@, <<r1, r1>>)]

NaNPath == [j \in 1 .. TotalPoints |-> <<NaN, NaN>>]

\* _get_connected_components on the undirected adjacency list of the edges:
\* the sets of nodes linked by edges.
RECURSIVE Reach(_, _)
Reach(ns, edges) ==
    LET more == ns \cup {e[2] : e \in {x \in Range(edges) : x[1] \in ns}}
                   \cup {e[1] : e \in {x \in Range(edges) : x[2] \in ns}}
    IN  IF more = ns THEN ns ELSE Reach(more, edges)

GetConnectedComponents(edges) ==
    {Reach({n}, edges) : n \in {e[1] : e \in Range(edges)} \cup {e[2] : e \in Range(edges)}}

\* _get_layout_for_multiple_components: the edges of one component.
ComponentEdges(edges, component) ==
    SelectSeq(edges, LAMBDA e : e[1] \in component /\ e[2] \in component)

\* The edge paths get_bundled_edge_paths returns once the chains are smoothed:
\* a reverse edge gets the path of its canonical edge, back to front.
RestoreReverseEdges(edges, paths) ==
    [e \in Range(Nonloops(edges)) |->
        IF e \in DOMAIN paths THEN paths[e] ELSE Reverse(paths[Rev(e)])]

\* A slip that hands every position to every component.
AllNodePositions(positions, component) == positions

\* _get_layout_for_multiple_components: the node positions of one component.
ComponentNodePositions(positions, component) ==
    [n \in DOMAIN positions \cap component |-> positions[n]]

\* The arguments the wrapper calls the layout function with, per component:
\* the whole edge list and all positions if there is one component only.
ComponentArguments(edges, positions, components) ==
    [c \in components |->
        IF Cardinality(components) > 1
        THEN [edges |-> ComponentEdges(edges, c),
              node_positions |-> ComponentNodePositions(positions, c)]
        ELSE [edges |-> edges, node_positions |-> positions]]

\* The parameters of get_bundled_edge_paths.
BundleParameters ==
    [k |-> DefaultK, compatibility_threshold |-> CompatibilityThreshold,
     total_cycles |-> TotalCycles, total_iterations |-> TotalIterations,
     step_size |-> StepSize]

\* The canonical edges of one call of get_bundled_edge_paths.
Canonical(edges) == Range(UnidirectionalEdges(Nonloops(edges)))

\* get_bundled_edge_paths behind _handle_multiple_components: one call per
\* component, the results merged.  A chain that is not finite or has no
\* length makes the spline fit of its call fail or return nan.
RouteBundled ==
    /\ pc = "start"
    /\ \E components \in {GetConnectedComponents(edge_list)} :
       \E given \in {ComponentArguments(edge_list, node_positions, components)} :
       \E pick \in [components -> UNION {Orders(Canonical(given[c].edges)) : c \in components}] :
           /\ \A c \in components : Range(pick[c]) = Canonical(given[c].edges)
           /\ \E chains \in {[c \in components |->
                   BundledControlPoints(given[c].edges, given[c].node_positions, pick[c])]} :
              \E r0, r1 \in SmoothResiduals :
              \E results \in {[c \in components |->
                   RestoreReverseEdges(given[c].edges,
                       [e \in Canonical(given[c].edges) |->
                           IF \E x \in Canonical(given[c].edges) : IsDegenerate(chains[c][x])
                           THEN NaNPath
                           ELSE SmoothPath(chains[c][e], r0, r1)])]} :
               /\ control_points' =
                      [e \in UNION {Canonical(given[c].edges) : c \in components} |->
                          chains[CHOOSE c \in components : e[1] \in c][e]]
               /\ \/ /\ \E c \in components : \E e \in Canonical(given[c].edges) :
                            IsDegenerate(chains[c][e])
                     /\ pc' = "raised" /\ edge_paths' = NoPaths
                     /\ component_calls' = NoCalls
                  \/ /\ pc' = "done"
                     /\ edge_paths' = [e \in UNION {DOMAIN results[c] : c \in components} |->
                                          results[CHOOSE c \in components : e[1] \in c][e]]
                     /\ component_calls' =
                            [made \in {[edges |-> given[c].edges,
                                        node_positions |-> given[c].node_positions,
                                        parameters |-> BundleParameters,
                                        edge_paths |-> results[c]] : c \in components} |->
                                Cardinality({c \in components :
                                    /\ given[c].edges = made.edges
                                    /\ given[c].node_positions = made.node_positions})]
    /\ warned' = Range(Selfloops(edge_list))
    /\ call' = "get_bundled_edge_paths"
    /\ UNCHANGED <<handler, second_paths, bundle, edge_list, node_positions, edge_width, drawVars,
                   compatVars, layoutVars>>

\* ------------------------------------ curved and arced routing (_edge_layout.py)

\* _initialize_nonloop_control_points: min(max(int(edge_length * 10), 1), 5)
\* control points, edge_length being the length of the edge over the norm of
\* scale = (1, 1).
TotalControlPoints(e, positions) ==
    LET edge_length == (Norm(Sub(positions[e[2]], positions[e[1]])) * Unit)
                           \div ISqrt(2 * Unit * Unit)
        tenfold == (edge_length * 10) \div Unit
        floored == IF tenfold > 1 THEN tenfold ELSE 1
    IN  IF floored < 5 THEN floored ELSE 5

\* _initialize_nonloop_control_point_positions with bundle_parallel_edges set:
\* the fractions linspace(0, 1, n + 2)[1:-1] of the way from source to target.
InitialControlPointPositions(e, positions) ==
    LET n == TotalControlPoints(e, positions)
        delta == Sub(positions[e[2]], positions[e[1]])
    IN  [i \in 1 .. n |-> <<positions[e[1]][1] + (i * delta[1]) \div (n + 1),
                            positions[e[1]][2] + (i * delta[2]) \div (n + 1)>>]

\* What the optimiser of the control points may do to them: it holds the nodes
\* fixed and returns the control points only, each moved by some displacement.
ControlPointShifts == {<<0, 0>>, <<0, 12>>, <<0 - 9, 0>>}

\* A slip that leaves the source node out of the path.
PathWithoutSource(e, positions, control_point_positions) ==
    control_point_positions \o <<positions[e[2]]>>

\* _get_path_through_control_points, for one edge: the position of the source,
\* the control points, the position of the target.
GetPathThroughControlPoints(e, positions, control_point_positions) ==
    <<positions[e[1]]>> \o control_point_positions \o <<positions[e[2]]>>

\* _bspline: a spline through the control points, sampled at TotalPoints
\* places from its first to its last point; control points that are not
\* numbers leave no number in the spline.
BSpline(path) ==
    IF \A i \in DOMAIN path : FinitePt(path[i]) THEN Resample(path, TotalPoints)
    ELSE NaNPath

\* get_curved_edge_paths for the edges that are not self-loops, with
\* bundle_parallel_edges set: one edge of a bidirectional pair is routed, the
\* other one gets its path back to front.
RouteCurvedNonloops ==
    /\ pc = "start"
    /\ \E shift \in ControlPointShifts :
        LET routed == Range(UnidirectionalEdges(Nonloops(edge_list)))
            chain(e) == GetPathThroughControlPoints(e, node_positions,
                            [i \in 1 .. TotalControlPoints(e, node_positions) |->
                                Add(InitialControlPointPositions(e, node_positions)[i], shift)])
        IN  /\ control_points' = [e \in routed |-> chain(e)]
            /\ edge_paths' = RestoreReverseEdges(edge_list,
                                 [e \in routed |-> BSpline(chain(e))])
    /\ pc' = "done"
    /\ call' = "get_curved_edge_paths"
    /\ UNCHANGED <<traceVars, edge_list, node_positions, edge_width, warned, drawVars, compatVars, layoutVars>>

\* The vertices of matplotlib's ConnectionStyle.Arc3(rad) from A to B: A, the
\* control point (A + B) / 2 + rad * (dy, -dx), and B.
Arc3(A, B, rad) ==
    <<A,
      <<(A[1] + B[1]) \div 2 + (rad * (B[2] - A[2])) \div Unit,
        (A[2] + B[2]) \div 2 - (rad * (B[1] - A[1])) \div Unit>>,
      B>>

\* _get_arced_nonloop_edge_paths with the default rad = 1.
RouteArcedNonloops ==
    /\ pc = "start"
    /\ control_points' = [e \in Range(Nonloops(edge_list)) |->
                             Arc3(node_positions[e[1]], node_positions[e[2]], Unit)]
    /\ edge_paths' = [e \in Range(Nonloops(edge_list)) |->
                         BSpline(Arc3(node_positions[e[1]], node_positions[e[2]], Unit))]
    /\ pc' = "done"
    /\ call' = "_get_arced_nonloop_edge_paths"
    /\ UNCHANGED <<traceVars, edge_list, node_positions, edge_width, warned, drawVars, compatVars, layoutVars>>

\* ------------------------------------------------------ bundling (_main.py)

\* The number of control points per edge the older bundler is run with.
TotalControlPointsPerEdge == 2

\* The defaults of _get_bundled_edge_paths: k = 10000, initial_temperature =
\* 0.05.
MainK == 100 * 100
InitialTemperature == Unit \div 20

\* _init_nonloop: the control points ii = 0 .. n-1 of an edge are placed at
\* (ii+1) * distance / (n+1) * unit_vector + position(source).
InitNonloopWith(e, positions, total) ==
    The({[ii \in 1 .. total |->
             The({<<FAdd(FDiv(FMul(m, unit_vector[1]), Unit), positions[e[1]][1]),
                    FAdd(FDiv(FMul(m, unit_vector[2]), Unit), positions[e[1]][2])>> :
                  m \in {FDiv(ii * distance, total + 1)}})] :
         <<distance, unit_vector>> \in
             {The({<<Norm(delta), <<FDiv(delta[1] * Unit, Norm(delta)),
                                    FDiv(delta[2] * Unit, Norm(delta))>>>> :
                   delta \in {Sub(positions[e[2]], positions[e[1]])}})}})

InitNonloop(e, positions) == InitNonloopWith(e, positions, TotalControlPointsPerEdge)

\* _get_edge_compatibility of _main.py: the product of the four factors, used
\* where it is greater than 0.05 (and 0 elsewhere).
MainEdgeCompatibility(P, Q) ==
    The({IF FLt(Unit \div 20, product) THEN product ELSE 0 :
         product \in {Times(Times(Times(GetAngleCompatibility(P, Q),
                                        GetScaleCompatibility(P, Q)),
                                  GetPositionCompatibility(P, Q)),
                            GetVisibilityCompatibility(P, Q))}})

\* A slip that caps the displacement of a point at twice the temperature.
ClampTwice(v, temperature) ==
    The({IF len = 0 THEN ZeroVec
         ELSE <<FDiv(FMul(v[1], PyMin(len, 2 * temperature)), len),
                FDiv(FMul(v[2], PyMin(len, 2 * temperature)), len)>> :
         len \in {MatrixNorm(<<v>>)}})

\* The last two lines of _holten_wijk_inner, for one point: the displacement
\* is scaled to the length min(length, temperature).
Clamp(v, temperature) ==
    LET cut(x, len) == IF IsFinite(x) /\ IsFinite(len) /\ Abs(x) > Unit * Unit
                       THEN FDiv(FMul(x \div 1024, PyMin(len, temperature)), len \div 1024)
                       ELSE FDiv(FMul(x, PyMin(len, temperature)), len)
    IN  The({IF len = 0 THEN ZeroVec ELSE <<cut(v[1], len), cut(v[2], len)>> :
             len \in {MatrixNorm(<<v>>)}})

\* _holten_wijk_inner on the control points (the nodes are not updated).  paths
\* maps every edge to its chain, node positions at both ends; order is the
\* order of the edges.  A point that coincides with another point of the array
\* has no direction to it (0 / 0), and a point that is not finite spoils all.
\* The control points of two edges are paired as _get_valid_control_point_pairs
\* zips them, back to front if the far ends of the edges are the closer ones.
HoltenWijkInner(paths, order, positions, edge_compatibility, temperature) ==
    LET n == TotalControlPointsPerEdge + 2
        points == {<<e, i>> : e \in DOMAIN paths, i \in 2 .. (n - 1)}
        at(pt) == paths[pt[1]][pt[2]]
        spoilt == \E pt \in points : ~FinitePt(at(pt))
        meets(pt) == \/ \E other \in points \ {pt} : at(other) = at(pt)
                     \/ \E node \in DOMAIN positions : positions[node] = at(pt)
        Fs(pt) == FScale(MainK, FAddPt(FSubPt(paths[pt[1]][pt[2] - 1], at(pt)),
                                       FSubPt(paths[pt[1]][pt[2] + 1], at(pt))))
        index(e) == CHOOSE i \in DOMAIN order : order[i] = e
        first(pt, e2) == IF index(pt[1]) < index(e2) THEN pt[1] ELSE e2
        second(pt, e2) == IF index(pt[1]) < index(e2) THEN e2 ELSE pt[1]
        pull(pt, e2) ==
            The({The({The({<<FDiv(FMul(FMul(pair.compatibility, delta[1]), Unit), d2),
                             FDiv(FMul(FMul(pair.compatibility, delta[2]), Unit), d2)>> :
                           d2 \in {FAdd(FMul(delta[1], delta[1]), FMul(delta[2], delta[2]))}}) :
                      delta \in {FSubPt(IF pair.reverse THEN paths[e2][n + 1 - pt[2]]
                                        ELSE paths[e2][pt[2]],
                                        at(pt))}}) :
                 pair \in {edge_compatibility[<<first(pt, e2), second(pt, e2)>>]}})
        RECURSIVE Fe(_, _)
        Fe(es, pt) ==
            IF es = {} THEN ZeroVec
            ELSE The({FAddPt(Fe(es \ {e2}, pt),
                             IF e2 = pt[1] THEN ZeroVec ELSE pull(pt, e2)) :
                      e2 \in {CHOOSE x \in es : TRUE}})
        displacement(pt) ==
            IF spoilt \/ meets(pt) THEN <<NaN, NaN>>
            ELSE FAddPt(Fs(pt), Fe(DOMAIN paths, pt))
    IN  [e \in DOMAIN paths |->
            [i \in 1 .. n |->
                IF i = 1 \/ i = n THEN paths[e][i]
                ELSE The({FAddPt(paths[e][i], Clamp(d, temperature)) :
                          d \in {displacement(<<e, i>>)}})]]

\* The loop over the temperatures, which fall linearly from the initial
\* temperature over the iterations.
RECURSIVE HoltenWijk(_, _, _, _, _)
HoltenWijk(paths, order, positions, edge_compatibility, i) ==
    IF i = TotalIterations THEN paths
    ELSE The({HoltenWijk(HoltenWijkInner(pp, order, positions, edge_compatibility,
                             (InitialTemperature * (TotalIterations - i)) \div TotalIterations),
                         order, positions, edge_compatibility, i + 1) : pp \in {paths}})

\* The compatibility of every pair of edges, computed once before the loop,
\* and whether the control points of the pair are zipped back to front.
MainPairs(order, positions) ==
    [pair \in {<<order[i], order[j]>> : i, j \in DOMAIN order} |->
        The({[compatibility |-> MainEdgeCompatibility(P, Q), reverse |-> PairReverse(P, Q)] :
             P \in {EdgeSegment(pair[1], positions)},
             Q \in {EdgeSegment(pair[2], positions)}})]

\* _get_bundled_edge_paths: self-loops are dropped without a word, a reverse
\* edge gets the very path of its canonical edge.
GetBundledEdgePathsMain(edges, positions, order) ==
    The({[e \in Range(Nonloops(edges)) |->
             IF e \in DOMAIN bundled THEN bundled[e] ELSE bundled[Rev(e)]] :
         bundled \in {The({HoltenWijk([e \in Range(order) |->
                                          <<positions[e[1]]>> \o InitNonloop(e, positions)
                                              \o <<positions[e[2]]>>],
                                      order, positions, edge_compatibility, 0) :
                            edge_compatibility \in {MainPairs(order, positions)}})}})

RouteBundledMain ==
    /\ pc = "start"
    /\ \E order \in Orders(Range(UnidirectionalEdges(Nonloops(edge_list)))) :
        \E paths \in {GetBundledEdgePathsMain(edge_list, node_positions, order)} :
            /\ edge_paths' = paths
            /\ control_points' = [e \in Range(order) |-> paths[e]]
    /\ pc' = "done"
    /\ call' = "_get_bundled_edge_paths"
    /\ UNCHANGED <<traceVars, edge_list, node_positions, edge_width, warned, drawVars, compatVars, layoutVars>>

\* ------------------------------------------------------------ specification

InitRoute ==
    /\ edge_list \in EdgeLists
    /\ node_positions \in Layouts
    /\ pc = "start"
    /\ call = "none"
    /\ edge_width = 0
    /\ edge_paths = NoPaths
    /\ control_points = NoPaths
    /\ NoTrace
    /\ warned = {}
    /\ edge_layout = [name |-> "none", interned |-> TRUE]
    /\ edge_artists = {} /\ raised = "none"
    /\ segments = <<>> /\ scores = <<>>
    /\ NoLayoutCall

NextRoute ==
    \/ RouteStraightMain
    \/ RouteStraightNonloops
    \/ RouteBundled
    \/ RouteBundledMain
    \/ RouteCurvedNonloops
    \/ RouteArcedNonloops

SpecRoute == InitRoute /\ [][NextRoute]_vars

\* ------------------------------------------------ the same call, twice

\* The fresh identifiers uuid4() gives to the control points of a call: the
\* control points are numbered in the order they are made, upwards in one
\* call and downwards in another.
IdNumberings == {"ascending", "descending"}

\* The number of control points of the edges before the i-th one.
RECURSIVE ControlPointsBefore(_, _, _)
ControlPointsBefore(edges, positions, i) ==
    IF i = 1 THEN 0
    ELSE TotalControlPoints(edges[i - 1], positions)
             + ControlPointsBefore(edges, positions, i - 1)

\* _initialize_nonloop_control_points: every edge gets a list of fresh
\* identifiers, one per control point.
InitializeNonloopControlPoints(edges, positions, numbering) ==
    [e \in Range(edges) |->
        The({[i \in 1 .. TotalControlPoints(e, positions) |->
                 IF numbering = "ascending" THEN before + i
                 ELSE ControlPointsBefore(edges, positions, Len(edges) + 1) + 1 - (before + i)] :
             before \in {ControlPointsBefore(edges, positions,
                                             CHOOSE j \in DOMAIN edges : edges[j] = e)}})]

\* _initialize_nonloop_control_point_positions with bundle_parallel_edges
\* set: identifier -> position on the straight line.
InitializeNonloopControlPointPositions(edge_to_control_points, positions) ==
    [id \in UNION {Range(edge_to_control_points[e]) : e \in DOMAIN edge_to_control_points} |->
        The({InitialControlPointPositions(slot[1], positions)[slot[2]] :
             slot \in {x \in {<<e, i>> : e \in DOMAIN edge_to_control_points, i \in 1 .. 5} :
                          /\ x[2] \in DOMAIN edge_to_control_points[x[1]]
                          /\ edge_to_control_points[x[1]][x[2]] = id}})]

\* What _optimize_control_point_positions returns: the control points only,
\* each moved by the displacement the optimiser finds for these positions.
OptimizeControlPointPositions(control_point_positions, shift) ==
    [id \in DOMAIN control_point_positions |-> Add(control_point_positions[id], shift)]

\* A slip that walks the control points of an edge in the order of their
\* identifiers.
ControlPointsInIdOrder(ids, control_point_positions) ==
    [i \in DOMAIN ids |->
        control_point_positions[
            CHOOSE id \in Range(ids) :
                Cardinality({other \in Range(ids) : other < id}) = i - 1]]

\* [control_point_positions[node] for node in control_points].
ControlPointsOf(ids, control_point_positions) ==
    [i \in DOMAIN ids |-> control_point_positions[ids[i]]]

\* _get_curved_nonloop_edge_paths up to the smoothing: edge -> its chain.
GetCurvedNonloopChains(edges, positions, numbering, shift) ==
    The({The({[e \in Range(edges) |->
                  GetPathThroughControlPoints(e, positions,
                      ControlPointsOf(edge_to_control_points[e], control_point_positions))] :
              control_point_positions \in
                  {OptimizeControlPointPositions(
                       InitializeNonloopControlPointPositions(edge_to_control_points, positions),
                       shift)}}) :
         edge_to_control_points \in {InitializeNonloopControlPoints(edges, positions, numbering)}})

\* get_curved_edge_paths (edges that are not self-loops, bundle_parallel_edges
\* set), called a second time with the same arguments: the control points
\* get other identifiers, and the optimiser, given the same positions, moves
\* them as in the first call.
RouteCurvedAgain ==
    /\ pc = "done" /\ call = "get_curved_edge_paths"
    /\ \E numbering \in IdNumberings, shift \in ControlPointShifts :
        /\ \A e \in DOMAIN control_points :
               \A i \in 1 .. TotalControlPoints(e, node_positions) :
                   control_points[e][i + 1] =
                       Add(InitialControlPointPositions(e, node_positions)[i], shift)
        /\ \E chains \in {GetCurvedNonloopChains(UnidirectionalEdges(Nonloops(edge_list)),
                                                 node_positions, numbering, shift)} :
               second_paths' = RestoreReverseEdges(edge_list,
                                   [e \in DOMAIN chains |-> BSpline(chains[e])])
    /\ call' = "get_curved_edge_paths, twice"
    /\ UNCHANGED <<handler, component_calls, bundle, edge_list, node_positions, pc, edge_width, edge_paths,
                   control_points, warned, drawVars, compatVars, layoutVars>>

\* get_bundled_edge_paths behind _handle_multiple_components, called a second
\* time with the same arguments: the sets of edges are walked in an order of
\* its own, and the spline fit gives the same as before for the same chains.
RouteBundledAgain ==
    /\ pc \in {"done", "raised"} /\ call = "get_bundled_edge_paths"
    /\ \E components \in {GetConnectedComponents(edge_list)} :
       \E given \in {ComponentArguments(edge_list, node_positions, components)} :
       \E canonical \in {UNION {Canonical(given[c].edges) : c \in components}} :
       \E pick \in [components -> UNION {Orders(Canonical(given[c].edges)) : c \in components}] :
           /\ \A c \in components : Range(pick[c]) = Canonical(given[c].edges)
           /\ \E chains_of \in {[c \in components |->
                   BundledControlPoints(given[c].edges, given[c].node_positions, pick[c])]} :
              \E chains \in {[e \in canonical |->
                                 chains_of[CHOOSE c \in components : e[1] \in c][e]]} :
                  IF chains = control_points
                  THEN second_paths' = edge_paths
                  ELSE IF \E e \in canonical : IsDegenerate(chains[e])
                  THEN second_paths' \in
                           {NoPaths, RestoreReverseEdges(edge_list, [e \in canonical |-> NaNPath])}
                  ELSE \E r0, r1 \in SmoothResiduals :
                           second_paths' = RestoreReverseEdges(edge_list,
                               [e \in canonical |-> SmoothPath(chains[e], r0, r1)])
    /\ call' = "get_bundled_edge_paths, twice"
    /\ UNCHANGED <<handler, component_calls, bundle, edge_list, node_positions, pc, edge_width, edge_paths,
                   control_points, warned, drawVars, compatVars, layoutVars>>

\* The straight and the arced routing of the edges that are not self-loops,
\* called a second time with the same arguments.
RouteStraightAgain ==
    /\ pc = "done" /\ call = "_get_straight_nonloop_edge_paths"
    /\ second_paths' = GetStraightNonloopEdgePaths(Nonloops(edge_list), node_positions)
    /\ call' = "_get_straight_nonloop_edge_paths, twice"
    /\ UNCHANGED <<handler, component_calls, bundle, edge_list, node_positions, pc, edge_width, edge_paths,
                   control_points, warned, drawVars, compatVars, layoutVars>>

RouteArcedAgain ==
    /\ pc = "done" /\ call = "_get_arced_nonloop_edge_paths"
    /\ second_paths' = [e \in Range(Nonloops(edge_list)) |->
                           BSpline(Arc3(node_positions[e[1]], node_positions[e[2]], Unit))]
    /\ call' = "_get_arced_nonloop_edge_paths, twice"
    /\ UNCHANGED <<handler, component_calls, bundle, edge_list, node_positions, pc, edge_width, edge_paths,
                   control_points, warned, drawVars, compatVars, layoutVars>>

NextTwice ==
    \/ RouteStraightNonloops
    \/ RouteStraightAgain
    \/ RouteCurvedNonloops
    \/ RouteCurvedAgain
    \/ RouteArcedNonloops
    \/ RouteArcedAgain
    \/ RouteBundled
    \/ RouteBundledAgain

SpecTwice == InitRoute /\ [][NextTwice]_vars

\* Graphs on four nodes, which can have two components with an edge each:
\* the nodes sit on the four corners.
ComponentEdgeChoices ==
    {<<1, 2>>, <<2, 1>>, <<3, 4>>, <<4, 3>>, <<2, 3>>, <<1, 3>>, <<4, 4>>}
ComponentLayouts ==
    {f \in [1 .. 4 -> Corners] :
        f[1] = <<0, 0>> /\ \A n, o \in 1 .. 4 : f[n] = f[o] => n = o}

InitComponents ==
    /\ edge_list \in SeqsUpTo(ComponentEdgeChoices, MaxEdges)
    /\ node_positions \in ComponentLayouts
    /\ pc = "start"
    /\ call = "none"
    /\ edge_width = 0
    /\ edge_paths = NoPaths
    /\ control_points = NoPaths
    /\ NoTrace
    /\ warned = {}
    /\ edge_layout = [name |-> "none", interned |-> TRUE]
    /\ edge_artists = {} /\ raised = "none"
    /\ segments = <<>> /\ scores = <<>>
    /\ NoLayoutCall

NextComponents == RouteBundled

SpecComponents == InitComponents /\ [][NextComponents]_vars

\* ------------------------------- get_bundled_edge_paths, one step at a time

\* The fractions a caller straightens by: not at all, half, fully.
StraightenBy == {0, Unit \div 2, Unit}

\* A slip that spaces the points as if the last one were left out.
LinspaceOpen(i, n) == ((i - 1) * Unit) \div n

\* np.linspace(0, 1, n), the i-th of its n values.
Linspace(i, n) == ((i - 1) * Unit) \div (n - 1)

\* _straighten_path: the weighted average of the path and of the straight
\* line between its end points,
\* (1 - straighten_by) * path + straighten_by * (p0 + linspace * (p1 - p0)).
StraightenPath(path, straighten_by) ==
    [i \in 1 .. Len(path) |->
        The({FAddPt(<<FDiv(FMul(Unit - straighten_by, path[i][1]), Unit),
                      FDiv(FMul(Unit - straighten_by, path[i][2]), Unit)>>,
                    <<FDiv(FMul(straighten_by, on_line[1]), Unit),
                      FDiv(FMul(straighten_by, on_line[2]), Unit)>>) :
             on_line \in {The({FAddPt(path[1],
                                      <<FDiv(FMul(weight, along[1]), Unit),
                                        FDiv(FMul(weight, along[2]), Unit)>>) :
                               along \in {FSubPt(path[Len(path)], path[1])},
                               weight \in {Linspace(i, Len(path))}})}})]

\* _straighten_edges.
StraightenEdges(chains, straighten_by) ==
    The({[e \in DOMAIN c |-> StraightenPath(c[e], straighten_by)] : c \in {chains}})

\* Every step of the call is written in two parts: what it does to the
\* counters of the loops (pc and bundle), and what it does to the chains.

\* The edge lists get_bundled_edge_paths is called with behind
\* _handle_multiple_components: the edges of one component, or the whole list
\* if there are not several components.
BundleCalls(edges, positions) ==
    The({IF components = {} THEN {edges}
         ELSE {ComponentArguments(edges, positions, components)[c].edges : c \in components} :
         components \in {GetConnectedComponents(edges)}})

\* The call up to the loop: self-loops and reverse edges are filtered out and
\* every edge left starts as the chain of its two node positions.
BundleStartCount ==
    /\ pc = "start"
    /\ \E edges \in BundleCalls(edge_list, node_positions) :
       \E order \in Orders(Canonical(edges)) :
        bundle' = [edges |-> edges, order |-> order, cycle |-> 0, expanded |-> FALSE, iteration |-> 0,
                   total_iterations |-> TotalIterations, step_size |-> StepSize,
                   previous |-> NoPaths, schedule |-> <<>>,
                   straightened |-> FALSE, straighten_by |-> 0]
    /\ pc' = "bundling"

BundleStart ==
    /\ BundleStartCount
    /\ control_points' = InitializeBundledControlPoints(bundle'.order, node_positions)
    /\ warned' = Range(Selfloops(bundle'.edges))
    /\ call' = "get_bundled_edge_paths, by steps"
    /\ UNCHANGED <<handler, second_paths, component_calls, edge_list, node_positions, edge_width,
                   edge_paths, drawVars, compatVars, layoutVars>>

\* The first line of a cycle: _expand_control_points.
ExpandControlPointsCount ==
    /\ pc = "bundling"
    /\ bundle.cycle < TotalCycles /\ ~bundle.expanded
    /\ bundle' = [bundle EXCEPT !.expanded = TRUE, !.iteration = 0,
                                !.previous = control_points]
    /\ pc' = pc

ExpandControlPointsStep ==
    /\ ExpandControlPointsCount
    /\ control_points' = ExpandControlPoints(control_points)
    /\ UNCHANGED <<handler, second_paths, component_calls, edge_list, node_positions, call,
                   edge_width, edge_paths, warned, drawVars, compatVars, layoutVars>>

\* One pass of the inner loop.
ForceUpdateCount ==
    /\ pc = "bundling"
    /\ bundle.expanded /\ bundle.iteration < bundle.total_iterations
    /\ bundle' = [bundle EXCEPT !.iteration = @ + 1]
    /\ pc' = pc

ForceUpdateStep ==
    /\ ForceUpdateCount
    /\ control_points' =
           ForceUpdate(control_points,
                       [e \in Range(bundle.order) |-> GetK(e, node_positions, DefaultK)],
                       GetEdgeCompatibility(bundle.order, node_positions,
                                            CompatibilityThreshold),
                       bundle.step_size)
    /\ UNCHANGED <<handler, second_paths, component_calls, edge_list, node_positions, call,
                   edge_width, edge_paths, warned, drawVars, compatVars, layoutVars>>

\* The last two lines of a cycle: step_size /= 2. and the cut of
\* total_iterations.
EndCycleCount ==
    /\ pc = "bundling"
    /\ bundle.expanded /\ bundle.iteration = bundle.total_iterations
    /\ bundle' = [bundle EXCEPT
                     !.schedule = Append(@, [iterations |-> bundle.iteration,
                                             step_size |-> bundle.step_size]),
                     !.cycle = @ + 1, !.expanded = FALSE, !.iteration = 0,
                     !.step_size = @ \div 2,
                     !.total_iterations = NextIterations(@)]
    /\ pc' = pc

EndCycle ==
    /\ EndCycleCount
    /\ UNCHANGED <<handler, second_paths, component_calls, edge_list, node_positions, call,
                   edge_width, edge_paths, control_points, warned, drawVars, compatVars,
                   layoutVars>>

\* After the loop: the chains are straightened if straighten_by > 0.  (The
\* argument is drawn where the call first reads it.)
StraightenEdgesCount ==
    /\ pc = "bundling"
    /\ bundle.cycle = TotalCycles /\ ~bundle.straightened
    /\ \E straighten_by \in StraightenBy :
        bundle' = [bundle EXCEPT !.straightened = TRUE, !.straighten_by = straighten_by,
                                 !.previous = control_points]
    /\ pc' = pc

StraightenEdgesStep ==
    /\ StraightenEdgesCount
    /\ control_points' =
           IF bundle'.straighten_by > 0
           THEN StraightenEdges(control_points, bundle'.straighten_by)
           ELSE control_points
    /\ UNCHANGED <<handler, second_paths, component_calls, edge_list, node_positions, call,
                   edge_width, edge_paths, warned, drawVars, compatVars, layoutVars>>

\* The rest of the call: the chains are smoothed, the reverse edges get their
\* paths, and the call returns (or the spline fit fails).
BundleFinishCount ==
    /\ pc = "bundling"
    /\ bundle.cycle = TotalCycles /\ bundle.straightened
    /\ \/ pc' = "done"
       \/ /\ \E e \in DOMAIN control_points : IsDegenerate(control_points[e])
          /\ pc' = "raised"
    /\ bundle' = bundle

BundleFinish ==
    /\ BundleFinishCount
    /\ IF pc' = "raised" THEN edge_paths' = NoPaths
       ELSE IF \E e \in DOMAIN control_points : IsDegenerate(control_points[e])
       THEN edge_paths' = RestoreReverseEdges(bundle.edges,
                              [e \in DOMAIN control_points |-> NaNPath])
       ELSE \E r0, r1 \in SmoothResiduals :
                edge_paths' = RestoreReverseEdges(bundle.edges,
                    [e \in DOMAIN control_points |-> SmoothPath(control_points[e], r0, r1)])
    /\ UNCHANGED <<handler, second_paths, component_calls, edge_list, node_positions, call,
                   edge_width, control_points, warned, drawVars, compatVars, layoutVars>>

\* The graphs of InitComponents, and a connected graph with two edges that
\* cross: both diagonals of the rectangle and one of its sides.
CrossedEdgeLists == {<<<<1, 2>>, <<3, 4>>, <<2, 3>>>>}

InitBundle ==
    /\ edge_list \in SeqsUpTo(ComponentEdgeChoices, MaxEdges) \cup CrossedEdgeLists
    /\ node_positions \in ComponentLayouts
    /\ pc = "start"
    /\ call = "none"
    /\ edge_width = 0
    /\ edge_paths = NoPaths
    /\ control_points = NoPaths
    /\ NoTrace
    /\ warned = {}
    /\ edge_layout = [name |-> "none", interned |-> TRUE]
    /\ edge_artists = {} /\ raised = "none"
    /\ segments = <<>> /\ scores = <<>>
    /\ NoLayoutCall

NextBundle ==
    \/ BundleStart
    \/ ExpandControlPointsStep
    \/ ForceUpdateStep
    \/ EndCycle
    \/ StraightenEdgesStep
    \/ BundleFinish

SpecBundle == InitBundle /\ [][NextBundle]_vars

\* The loops of the call are for loops: a step that can be taken is taken.
\* The condition is put on the counters, which every step moves.
LoopCounters ==
    \/ BundleStartCount
    \/ ExpandControlPointsCount
    \/ ForceUpdateCount
    \/ EndCycleCount
    \/ StraightenEdgesCount
    \/ BundleFinishCount

SpecBundleFair == SpecBundle /\ WF_<<pc, bundle>>(LoopCounters)

NextStraight == GetStraightEdgePaths

SpecStraight == InitRoute /\ [][NextStraight]_vars

\* --------------------------------------------------------- drawing (_main.py)

\* The default of total_control_points_per_edge in _get_curved_edge_paths.
CurvedControlPointsPerEdge == 11

\* _insert_control_points and _init_nonloop for an edge that is not a
\* self-loop: its chain, node positions at both ends.
CurvedChainMain(e, positions) ==
    <<positions[e[1]]>> \o InitNonloopWith(e, positions, CurvedControlPointsPerEdge)
        \o <<positions[e[2]]>>

\* _get_curved_edge_paths of _main.py: every edge of the list, self-loops
\* included, gets control points (on the straight line, or around a circle
\* next to the node), and a spline through them from the source to the target.
GetCurvedEdgePathsMain(edges, positions) ==
    [e \in Range(edges) |->
        BSpline(<<positions[e[1]]>>
                \o (IF IsSelfloop(e)
                    THEN <<Add(positions[e[1]], <<Unit \div 10, Unit \div 10>>),
                           Add(positions[e[1]], <<0, Unit \div 5>>),
                           Add(positions[e[1]], <<0 - Unit \div 10, Unit \div 10>>)>>
                    ELSE InitNonloopWith(e, positions, CurvedControlPointsPerEdge))
                \o <<positions[e[2]]>>)]

\* _get_curved_edge_paths of _main.py, called on its own.
RouteCurvedMain ==
    /\ pc = "start"
    /\ control_points' = [e \in Range(Nonloops(edge_list)) |->
                             CurvedChainMain(e, node_positions)]
    /\ edge_paths' = GetCurvedEdgePathsMain(edge_list, node_positions)
    /\ pc' = "done"
    /\ call' = "_get_curved_edge_paths"
    /\ UNCHANGED <<traceVars, edge_list, node_positions, edge_width, warned, drawVars,
                   compatVars, layoutVars>>

NextCurved ==
    \/ RouteCurvedNonloops
    \/ RouteCurvedMain

SpecCurved == InitRoute /\ [][NextCurved]_vars

\* A slip that skips the edges without a path instead of stopping at them.
ArtistsOfRouted(order, paths) == Range(order) \cap DOMAIN paths

\* The loop that creates the artists: EdgeArtist(midline = edge_paths[edge])
\* for the edges in their order; the first edge without a path ends the loop
\* with a KeyError, the artists created before it stay.
ArtistsCreated(order, paths) ==
    {order[i] : i \in {j \in DOMAIN order : \A h \in 1 .. j : order[h] \in DOMAIN paths}}

\* draw_edges (the function): straight paths unless curved is set.
DrawEdges ==
    /\ pc = "start"
    /\ \E curved \in BOOLEAN, w \in EdgeWidths :
        \E paths \in {IF curved THEN GetCurvedEdgePathsMain(edge_list, node_positions)
                      ELSE GetStraightEdgePathsMain(edge_list, node_positions, w)} :
            /\ edge_layout' = [name |-> IF curved THEN "curved" ELSE "straight",
                               interned |-> TRUE]
            /\ edge_width' = w
            /\ edge_paths' = paths
            /\ warned' = IF curved THEN {} ELSE Range(Selfloops(edge_list))
            /\ edge_artists' = ArtistsCreated(edge_list, paths)
            /\ raised' = IF Range(edge_list) \subseteq DOMAIN paths THEN "none" ELSE "KeyError"
            /\ pc' = IF Range(edge_list) \subseteq DOMAIN paths THEN "done" ELSE "raised"
    /\ call' = "draw_edges"
    /\ UNCHANGED <<traceVars, edge_list, node_positions, control_points, compatVars, layoutVars>>

\* The names edge_layout is given.
Selectors == {"straight", "curved", "arced", "bundled", "spiral"}

\* A slip that takes every name it does not know for 'straight'.
DispatchedDefaultStraight(name, interned) ==
    IF interned /\ name \in {"curved", "bundled"} THEN name ELSE "straight"

\* The dispatch of BaseGraph.draw_edges: edge_layout is compared with the
\* literals 'straight', 'curved' and 'bundled' by identity (is), which holds
\* for the very string object of the literal and may fail for an equal string.
Dispatched(name, interned) ==
    IF interned /\ name \in {"straight", "curved", "bundled"} THEN name
    ELSE "NotImplementedError"

\* BaseGraph.draw_edges.
BaseGraphDrawEdges ==
    /\ pc = "start"
    /\ \E name \in Selectors, interned \in BOOLEAN, w \in EdgeWidths,
          order \in Orders(Range(UnidirectionalEdges(Nonloops(edge_list)))) :
        /\ edge_layout' = [name |-> name, interned |-> interned]
        /\ edge_width' = w
        /\ IF Dispatched(name, interned) = "NotImplementedError"
           THEN /\ raised' = "NotImplementedError"
                /\ pc' = "raised"
                /\ UNCHANGED <<edge_paths, edge_artists, warned>>
           ELSE \E paths \in
                    {CASE Dispatched(name, interned) = "straight" ->
                            GetStraightEdgePathsMain(edge_list, node_positions, w)
                       [] Dispatched(name, interned) = "curved" ->
                            GetCurvedEdgePathsMain(edge_list, node_positions)
                       [] Dispatched(name, interned) = "bundled" ->
                            GetBundledEdgePathsMain(edge_list, node_positions, order)} :
                    /\ edge_paths' = paths
                    /\ warned' = IF Dispatched(name, interned) = "straight"
                                 THEN Range(Selfloops(edge_list)) ELSE {}
                    /\ edge_artists' = ArtistsCreated(edge_list, paths)
                    /\ raised' = IF Range(edge_list) \subseteq DOMAIN paths
                                 THEN "none" ELSE "KeyError"
                    /\ pc' = IF Range(edge_list) \subseteq DOMAIN paths
                             THEN "done" ELSE "raised"
    /\ call' = "BaseGraph.draw_edges"
    /\ UNCHANGED <<traceVars, edge_list, node_positions, control_points, compatVars, layoutVars>>

NextDraw ==
    \/ DrawEdges
    \/ BaseGraphDrawEdges

SpecDraw == InitRoute /\ [][NextDraw]_vars

\* ------------------------------------------- compatibility of two segments

\* The four factors of a pair of segments, the threshold, the score
\* _get_edge_compatibility of _edge_layout.py keeps for the pair (or Dropped)
\* and the score of _main.py.
Factors(P, Q, threshold) ==
    [angle |-> GetAngleCompatibility(P, Q),
     scale |-> GetScaleCompatibility(P, Q),
     position |-> GetPositionCompatibility(P, Q),
     visibility |-> GetVisibilityCompatibility(P, Q),
     threshold |-> threshold,
     kept |-> PairCompatibility(P, Q, threshold),
     main |-> MainEdgeCompatibility(P, Q)]

InitCompat ==
    /\ edge_list = <<>>
    /\ node_positions = [n \in Nodes |-> <<0, 0>>]
    /\ pc = "start"
    /\ call = "none"
    /\ edge_width = 0
    /\ edge_paths = NoPaths
    /\ control_points = NoPaths
    /\ NoTrace
    /\ warned = {}
    /\ edge_layout = [name |-> "none", interned |-> TRUE]
    /\ edge_artists = {} /\ raised = "none"
    /\ segments \in (Corners \X Corners) \X (Corners \X Corners)
    /\ scores = <<>>
    /\ NoLayoutCall

\* One pass of the loop of _get_edge_compatibility, for the pair in both
\* orders.
GetPairCompatibility ==
    /\ pc = "start"
    /\ \E threshold \in {0, CompatibilityThreshold} :
        \E P \in {Segment(segments[1][1], segments[1][2])},
           Q \in {Segment(segments[2][1], segments[2][2])} :
            scores' = <<Factors(P, Q, threshold), Factors(Q, P, threshold)>>
    /\ pc' = "done"
    /\ call' = "_get_edge_compatibility"
    /\ UNCHANGED <<traceVars, edge_list, node_positions, edge_width, edge_paths, control_points, warned,
                   drawVars, segments, layoutVars>>

NextCompat == GetPairCompatibility

SpecCompat == InitCompat /\ [][NextCompat]_vars

\* ------------------------------------ force-directed layout (netgraph.py)

\* A slip that takes the sources of the edges for the nodes.
UniqueSources(edges) == {e[1] : e \in Range(edges)}

\* np.unique(edge_list): the nodes that occur in an edge.
Unique(edges) == {e[1] : e \in Range(edges)} \cup {e[2] : e \in Range(edges)}

\* The edge lists a layout is asked for: not empty, and with the edges in
\* ascending order (the adjacency matrix sums the edges up in any order).
LayoutEdgeLists ==
    {q \in EdgeLists :
        /\ Len(q) > 0
        /\ \A i \in 1 .. (Len(q) - 1) : 10 * q[i][1] + q[i][2] <= 10 * q[i + 1][1] + q[i + 1][2]}

\* The positions a caller supplies (for all the nodes, or for the nodes 2 and
\* 3 only), and what np.random.random may draw.
SuppliedLayouts ==
    {<<<<360, 480>>, <<0, 0>>, <<360, 0>>>>, <<<<0, 480>>, <<360, 480>>, <<120, 240>>>>,
     [n \in {2, 3} |-> IF n = 2 THEN <<360, 480>> ELSE <<0, 480>>]}
RandomLayouts ==
    {<<<<100, 700>>, <<800, 200>>, <<500, 500>>>>, <<<<250, 250>>, <<250, 750>>, <<900, 600>>>>}

\* The scales and the centres a caller asks for.
Scales == {Unit \div 10, 2 * Unit}
Centers == {<<0, 0>>, <<3 * Unit, 0 - 2 * Unit>>}

\* The calls of _fruchterman_reingold_layout: pos is given or not, fixed is
\* not given or names the first node or all the nodes, the edge weights are
\* floats (or left out, which makes them 1.0) or ints, and the solver is the
\* one the number of nodes selects.  scale and center are used only if fixed
\* is None, and are left at their defaults otherwise.
LayoutArguments(edges) ==
    {a \in [pos_given : BOOLEAN, pos : SuppliedLayouts \cup {NoLayout},
            fixed_given : BOOLEAN, fixed : SUBSET Unique(edges),
            weights : {"float", "int"}, iterations : {0, TotalIterations},
            solver : {"dense", "sparse"},
            scale : Scales \cup {Unit}, center : Centers] :
        /\ a.pos_given <=> a.pos # NoLayout
        /\ IF a.fixed_given THEN a.scale = Unit /\ a.center = <<0, 0>>
           ELSE a.scale \in Scales
        /\ IF a.fixed_given
           THEN a.fixed \in {{CHOOSE n \in Unique(edges) : \A m \in Unique(edges) : n <= m},
                             Unique(edges)}
           ELSE a.fixed = {}}

\* _edge_list_to_sparse_matrix: the weights of the edges from i to j, summed
\* (every weight of the model is 1).
Adjacency(edges, i, j) == Cardinality({x \in DOMAIN edges : edges[x] = <<i, j>>})

\* pos.astype(A.dtype): an array of ints keeps the whole part of a number.
Truncated(x) == IF x < 0 THEN 0 - (((0 - x) \div Unit) * Unit) ELSE (x \div Unit) * Unit

AsType(array, dtype) ==
    IF dtype = "int" THEN [n \in DOMAIN array |-> <<Truncated(array[n][1]), Truncated(array[n][2])>>]
    ELSE array

\* max and min over the values of a function to numbers.
Max(S) == CHOOSE x \in S : \A y \in S : y <= x
Min(S) == CHOOSE x \in S : \A y \in S : x <= y

\* domain_size: the largest coordinate of pos, or 1 if that is 0.
DomainSize(a) ==
    The({IF m = 0 THEN Unit ELSE m :
         m \in {Max({a.pos[n][c] : n \in DOMAIN a.pos, c \in 1 .. 2})}})

\* The optimal distance k: domain_size / sqrt(n) if fixed is given, else
\* sqrt(1 / n).
OptimalDistance(a, nodes) ==
    IF a.fixed_given THEN (DomainSize(a) * Unit) \div ISqrt(Cardinality(nodes) * Unit * Unit)
    ELSE ISqrt((Unit * Unit) \div Cardinality(nodes))

\* The initial heat: a tenth of the larger span of the positions in
\* the dense solver, 0.1 in the sparse one.
InitialT(array, solver) ==
    IF solver = "sparse" THEN Unit \div 10
    ELSE The({The({(IF Max(xs) - Min(xs) > Max(ys) - Min(ys)
                    THEN Max(xs) - Min(xs) ELSE Max(ys) - Min(ys)) \div 10 :
                   ys \in {{array[n][2] : n \in DOMAIN array}}}) :
              xs \in {{array[n][1] : n \in DOMAIN array}}})

\* np.random.random(shape) * domain_size + center, for one node.
RandomInDomain(point, a) ==
    <<(point[1] * DomainSize(a)) \div Unit + a.center[1],
      (point[2] * DomainSize(a)) \div Unit + a.center[2]>>

\* _fruchterman_reingold_layout up to the loop of the solver: the nodes, the
\* array of positions (random where pos is not given), k, the adjacency
\* matrix, the cast of the positions to the type of the matrix, t and dt.
\* With fixed given and pos not, k is computed from a domain_size that was
\* never assigned.
FruchtermanReingoldLayout ==
    /\ pc = "start"
    /\ \E a \in LayoutArguments(edge_list), random \in RandomLayouts :
        /\ arguments' = a
        /\ IF a.fixed_given /\ ~a.pos_given
           THEN /\ pc' = "raised" /\ raised' = "NameError"
                /\ UNCHANGED <<pos, solver_t, dt>>
           ELSE \E array \in {AsType([n \in Unique(edge_list) |->
                                        IF ~a.pos_given THEN random[n]
                                        ELSE IF n \in DOMAIN a.pos THEN a.pos[n]
                                        ELSE RandomInDomain(random[n], a)],
                                     a.weights)} :
                    \E t0 \in {InitialT(array, a.solver)} :
                        /\ pos' = array
                        /\ solver_t' = t0
                        /\ dt' = t0 \div (a.iterations + 1)
                        /\ pc' = "solving" /\ raised' = "none"
    /\ iteration' = 0
    /\ call' = "_fruchterman_reingold_layout"
    /\ UNCHANGED <<traceVars, edge_list, node_positions, edge_width, edge_paths, control_points, warned,
                   edge_layout, edge_artists, compatVars, returned, solutions>>

\* The displacement "force" on node i: the sum over the nodes j of
\* delta * (k * k / distance^2 - A[i][j] * distance / k), the distance being
\* at least 0.01.
Displacement(i, array, edges, k) ==
    LET term(j) ==
            The({The({<<(delta[1] * (((k * k * Unit) \div (distance * distance))
                                     - ((Adjacency(edges, i, j) * distance * Unit) \div k)))
                            \div Unit,
                        (delta[2] * (((k * k * Unit) \div (distance * distance))
                                     - ((Adjacency(edges, i, j) * distance * Unit) \div k)))
                            \div Unit>> :
                      distance \in {IF Norm(delta) < Unit \div 100 THEN Unit \div 100
                                    ELSE Norm(delta)}}) :
                 delta \in {Sub(array[i], array[j])}})
        RECURSIVE sum(_)
        sum(js) == IF js = {} THEN ZeroVec
                   ELSE The({Add(term(j), sum(js \ {j})) : j \in {CHOOSE x \in js : TRUE}})
    IN  sum(DOMAIN array)

\* A slip that leaves the displacement as long as the force is.
DeltaPosUncapped(displacement, heat) == displacement

\* displacement * t / length, a length below 0.01 being taken for 0.1.
DeltaPos(displacement, heat) ==
    The({<<(displacement[1] * heat) \div length,
           (displacement[2] * heat) \div length>> :
         length \in {The({IF norm < Unit \div 100 THEN Unit \div 10 ELSE norm :
                          norm \in {MatrixNorm(<<displacement>>)}})}})

\* One pass of the loop of _dense_fruchterman_reingold: delta_pos is computed
\* for every node and set to 0.0 for the fixed ones.
DenseMove(array, edges, k, heat, fixed) ==
    [i \in DOMAIN array |->
        Add(array[i], IF i \in fixed THEN ZeroVec
                      ELSE DeltaPos(Displacement(i, array, edges, k), heat))]

\* One pass of the loop of _sparse_fruchterman_reingold: the rows of the fixed
\* nodes are skipped, which leaves their displacement at 0.
SparseMove(array, edges, k, heat, fixed) ==
    [i \in DOMAIN array |->
        Add(array[i], DeltaPos(IF i \in fixed THEN ZeroVec
                               ELSE Displacement(i, array, edges, k), heat))]

\* pos += delta_pos on an array of ints cannot take the floats.
DenseIterate ==
    /\ pc = "solving" /\ arguments.solver = "dense"
    /\ iteration < arguments.iterations
    /\ IF arguments.weights = "int"
       THEN /\ pc' = "raised" /\ raised' = "TypeError"
            /\ UNCHANGED <<pos, solver_t, iteration>>
       ELSE /\ pos' = DenseMove(pos, edge_list, OptimalDistance(arguments, DOMAIN pos), solver_t,
                                arguments.fixed)
            /\ solver_t' = solver_t - dt
            /\ iteration' = iteration + 1
            /\ UNCHANGED <<pc, raised>>
    /\ UNCHANGED <<traceVars, edge_list, node_positions, call, edge_width, edge_paths, control_points,
                   warned, edge_layout, edge_artists, compatVars, arguments, dt, returned, solutions>>

SparseIterate ==
    /\ pc = "solving" /\ arguments.solver = "sparse"
    /\ iteration < arguments.iterations
    /\ IF arguments.weights = "int"
       THEN /\ pc' = "raised" /\ raised' = "TypeError"
            /\ UNCHANGED <<pos, solver_t, iteration>>
       ELSE /\ pos' = SparseMove(pos, edge_list, OptimalDistance(arguments, DOMAIN pos), solver_t,
                                 arguments.fixed)
            /\ solver_t' = solver_t - dt
            /\ iteration' = iteration + 1
            /\ UNCHANGED <<pc, raised>>
    /\ UNCHANGED <<traceVars, edge_list, node_positions, call, edge_width, edge_paths, control_points,
                   warned, edge_layout, edge_artists, compatVars, arguments, dt, returned, solutions>>

\* A slip that leaves the positions as they are.
RescaleLayoutSkipped(array, scale) == array

\* _rescale_layout: every axis is centred on its mean, and all is scaled so
\* that the largest coordinate is scale.
RescaleLayout(array, scale) ==
    LET mean(c) == LET RECURSIVE total(_)
                       total(ns) == IF ns = {} THEN 0
                                    ELSE The({array[n][c] + total(ns \ {n}) :
                                              n \in {CHOOSE x \in ns : TRUE}})
                   IN  total(DOMAIN array) \div Cardinality(DOMAIN array)
    IN  The({The({[n \in DOMAIN array |->
                      IF lim > 0 THEN <<FDiv(centred[n][1] * scale, lim),
                                        FDiv(centred[n][2] * scale, lim)>>
                      ELSE centred[n]] :
                  lim \in {Max({Abs(centred[n][c]) : n \in DOMAIN array, c \in 1 .. 2})}}) :
             centred \in {The({[n \in DOMAIN array |-> <<array[n][1] - mx, array[n][2] - my>>] :
                               mx \in {mean(1)}, my \in {mean(2)}})}})

\* The end of _fruchterman_reingold_layout: the positions are rescaled and
\* moved by center if fixed is None (an array of ints cannot take the
\* floats), and zipped with the nodes.
ReturnLayout ==
    /\ pc = "solving"
    /\ iteration = arguments.iterations
    /\ IF arguments.fixed_given
       THEN /\ returned' = pos
            /\ pc' = "done"
            /\ UNCHANGED raised
       ELSE IF arguments.weights = "int"
            THEN /\ pc' = "raised" /\ raised' = "TypeError"
                 /\ UNCHANGED returned
            ELSE /\ \E rescaled \in {RescaleLayout(pos, arguments.scale)} :
                        returned' = [n \in DOMAIN rescaled |->
                                        Add(rescaled[n], arguments.center)]
                 /\ pc' = "done"
                 /\ UNCHANGED raised
    /\ UNCHANGED <<traceVars, edge_list, node_positions, call, edge_width, edge_paths, control_points,
                   warned, edge_layout, edge_artists, compatVars, arguments, pos, solver_t, dt,
                   iteration, solutions>>

InitLayout ==
    /\ edge_list \in LayoutEdgeLists
    /\ node_positions = [n \in Nodes |-> <<0, 0>>]
    /\ pc = "start"
    /\ call = "none"
    /\ edge_width = 0
    /\ edge_paths = NoPaths
    /\ control_points = NoPaths
    /\ NoTrace
    /\ warned = {}
    /\ edge_layout = [name |-> "none", interned |-> TRUE]
    /\ edge_artists = {} /\ raised = "none"
    /\ segments = <<>> /\ scores = <<>>
    /\ NoLayoutCall

NextLayout ==
    \/ FruchtermanReingoldLayout
    \/ DenseIterate
    \/ SparseIterate
    \/ ReturnLayout

SpecLayout == InitLayout /\ [][NextLayout]_vars

\* ------------------------------------------ the two solvers on one input

\* One solver from the cast of the positions to its return: the temperature
\* it starts with, its cooling step and the positions after every iteration
\* (none if the update of an array of ints raises).
SolverRun(solver, array, edges, a) ==
    LET RECURSIVE run(_, _, _, _, _)
        run(p, k, heat, step, i) ==
            IF i = a.iterations THEN <<>>
            ELSE The({<<q>> \o run(q, k, heat - step, step, i + 1) :
                      q \in {IF solver = "dense" THEN DenseMove(p, edges, k, heat, a.fixed)
                             ELSE SparseMove(p, edges, k, heat, a.fixed)}})
    IN  The({[t |-> t0,
              dt |-> t0 \div (a.iterations + 1),
              raised |-> a.weights = "int" /\ a.iterations > 0,
              positions |-> IF a.weights = "int" THEN <<>>
                            ELSE run(array, OptimalDistance(a, DOMAIN array), t0,
                                     t0 \div (a.iterations + 1), 0)] :
             t0 \in {InitialT(array, solver)}})

\* _dense_fruchterman_reingold and _sparse_fruchterman_reingold, called with
\* the same adjacency, positions, k, fixed nodes and number of iterations.
SolveBoth ==
    /\ pc = "start"
    /\ \E a \in LayoutArguments(edge_list), random \in RandomLayouts :
        /\ a.solver = "dense" /\ (~a.fixed_given \/ a.pos_given)
        /\ arguments' = a
        /\ \E array \in {AsType([n \in Unique(edge_list) |->
                                     IF ~a.pos_given THEN random[n]
                                     ELSE IF n \in DOMAIN a.pos THEN a.pos[n]
                                     ELSE RandomInDomain(random[n], a)],
                                  a.weights)} :
            /\ pos' = array
            /\ solutions' = [solver \in {"dense", "sparse"} |->
                                 SolverRun(solver, array, edge_list, a)]
    /\ pc' = "done"
    /\ call' = "_dense_fruchterman_reingold, _sparse_fruchterman_reingold"
    /\ UNCHANGED <<traceVars, edge_list, node_positions, edge_width, edge_paths, control_points, warned,
                   edge_layout, edge_artists, raised, compatVars, solver_t, dt, iteration,
                   returned>>

NextSolvers == SolveBoth

SpecSolvers == InitLayout /\ [][NextSolvers]_vars

\* ------------------------------------------------------------------ claims

StraightDone ==
    /\ pc = "done"
    /\ call \in {"_get_straight_edge_paths", "_get_straight_nonloop_edge_paths"}

Bidirectional(e) == Rev(e) \in Range(edge_list)
Pos(n) == node_positions[n]
Cross(p, q) == p[1] * q[2] - p[2] * q[1]
Neg(p) == <<0 - p[1], 0 - p[2]>>

RoutedEdges == {e \in Range(edge_list) : ~IsSelfloop(e) /\ e \in DOMAIN edge_paths}
First(path) == path[1]
Last(path) == path[Len(path)]
Near(p, q) == Abs(p[1] - q[1]) <= SmoothResidual /\ Abs(p[2] - q[2]) <= SmoothResidual
FinitePath(path) == \A i \in DOMAIN path : FinitePt(path[i])

StraightPairs ==
    {e \in Range(edge_list) :
        /\ StraightDone
        /\ ~IsSelfloop(e) /\ Bidirectional(e) /\ Pos(e[1]) # Pos(e[2])}

ShiftedPairs == {e \in StraightPairs : call = "_get_straight_edge_paths"}

C3_StraightTwoPoints ==
    StraightDone =>
        \A e \in Range(edge_list) :
            (~IsSelfloop(e) /\ ~Bidirectional(e)) =>
                /\ e \in DOMAIN edge_paths
                /\ edge_paths[e] = <<Pos(e[1]), Pos(e[2])>>

\* The one edge (1,2) between (0,0) and (0.36,0) was routed by
\* _get_straight_edge_paths.
C3_Witness ==
    /\ pc = "done" /\ call = "_get_straight_edge_paths"
    /\ edge_list = <<<<1, 2>>>>
    /\ Pos(1) = <<0, 0>> /\ Pos(2) = <<360, 0>>
    /\ edge_paths[<<1, 2>>] = <<<<0, 0>>, <<360, 0>>>>

BundledDone ==
    /\ pc = "done"
    /\ call \in {"get_bundled_edge_paths", "_get_bundled_edge_paths"}

\* C6: bundled routing removes every self-loop with a warning, and the keys
\* of the result are exactly the edges of the input that are not self-loops.
C6_SelfloopsWarned ==
    BundledDone =>
        /\ Range(Selfloops(edge_list)) \subseteq warned
        /\ DOMAIN edge_paths = Range(Nonloops(edge_list))

\* C7: bundled routing of a bidirectional pair returns for the second
\* direction the path of the first one point by point reversed.
C7_ReversePaths ==
    BundledDone =>
        \A e \in Range(Nonloops(edge_list)) :
            Bidirectional(e) => edge_paths[Rev(e)] = Reverse(edge_paths[e])

Drawn ==
    /\ pc # "start"
    /\ call \in {"draw_edges", "BaseGraph.draw_edges"}

\* C4: when the edge list given to straight routing holds a self-loop, the
\* call does not fail: the self-loop is dropped with a warning and an artist
\* is created for every other edge.
C4_SelfloopDoesNotFail ==
    Drawn /\ edge_layout = [name |-> "straight", interned |-> TRUE] =>
        /\ raised = "none"
        /\ Range(Selfloops(edge_list)) \subseteq warned
        /\ edge_artists = Range(Nonloops(edge_list))

\* C5: the selector accepts each of the names straight, curved, arced and
\* bundled, and any other name raises at once, before any artist is created.
C5_SelectorAcceptsFour ==
    pc # "start" /\ call = "BaseGraph.draw_edges" =>
        IF edge_layout.name \in {"straight", "curved", "arced", "bundled"}
        THEN raised # "NotImplementedError"
        ELSE raised = "NotImplementedError" /\ edge_artists = {}

NonDegenerate ==
    /\ segments[1][1] # segments[1][2]
    /\ segments[2][1] # segments[2][2]

\* C8: every factor of the compatibility of two segments that have a length,
\* and their score, is the same for (P, Q) as for (Q, P).
C8_Symmetric ==
    pc = "done" /\ call = "_get_edge_compatibility" /\ NonDegenerate =>
        scores[1] = scores[2]

LayoutDone == pc = "done" /\ call = "_fruchterman_reingold_layout"

\* C9: the keys of the node positions the force-directed layout returns are
\* exactly the nodes that are the source or the target of some edge.
C9_KeysAreNodes ==
    LayoutDone =>
        DOMAIN returned = {n \in Nodes : \E e \in Range(edge_list) : n = e[1] \/ n = e[2]}

\* A layout of the edge (2, 3) alone was returned after the iterations of the
\* solver: it has the nodes 2 and 3 and not the node 1.
C9_Witness ==
    /\ LayoutDone
    /\ edge_list = <<<<2, 3>>>>
    /\ iteration = TotalIterations
    /\ DOMAIN returned = {2, 3}

\* C10: a node listed as fixed has in the result exactly the position the
\* caller supplied for it.
C10_FixedKeepsSupplied ==
    LayoutDone /\ arguments.fixed_given =>
        \A n \in arguments.fixed \cap DOMAIN arguments.pos : returned[n] = arguments.pos[n]

\* C11 as stated: without fixed nodes, every coordinate of the returned
\* positions is at most scale in absolute value, whatever the centre.
C11_WithinScale ==
    LayoutDone /\ ~arguments.fixed_given =>
        \A n \in DOMAIN returned : \A c \in 1 .. 2 : Abs(returned[n][c]) <= arguments.scale

\* C11: without fixed nodes, every coordinate of the returned positions is
\* within scale of the same coordinate of the centre.
C11_WithinScaleOfCenter ==
    LayoutDone /\ ~arguments.fixed_given =>
        \A n \in DOMAIN returned : \A c \in 1 .. 2 :
            Abs(returned[n][c] - arguments.center[c]) <= arguments.scale

\* A layout around the centre (3, -2) with the scale 0.1 was returned, one
\* node of which lies at the distance 0.1 from the centre on some axis.
C11_Witness ==
    /\ LayoutDone /\ ~arguments.fixed_given
    /\ arguments.scale = Unit \div 10 /\ arguments.center = <<3 * Unit, 0 - 2 * Unit>>
    /\ iteration = TotalIterations
    /\ \E n \in DOMAIN returned : \E c \in 1 .. 2 :
          Abs(returned[n][c] - arguments.center[c]) = arguments.scale

SolversDone ==
    pc = "done" /\ call = "_dense_fruchterman_reingold, _sparse_fruchterman_reingold"

\* C12: on the same adjacency, initial positions, k, fixed nodes and number
\* of iterations, the dense and the sparse solver start with the same
\* temperature, cool by the same step and have the same positions after
\* every iteration.
C12_SolversAgree ==
    SolversDone => solutions["dense"] = solutions["sparse"]

\* C13: a layout call fails exactly when some fixed node has no entry in the
\* supplied positions (no positions supplied included); every other call
\* returns a layout.
C13_RaisesIffFixedMissing ==
    call = "_fruchterman_reingold_layout" /\ pc \in {"done", "raised"} =>
        (pc = "raised" <=>
            /\ arguments.fixed_given
            /\ \E n \in arguments.fixed : ~arguments.pos_given \/ n \notin DOMAIN arguments.pos)

\* C14: routing a single self-loop and no other edge, with no angle
\* supplied, succeeds, and every point of the returned path is at the
\* distance of the radius from node position + radius * direction, for one
\* of the directions.
C14_LoneSelfloopRouted ==
    (/\ call = "get_straight_edge_paths"
     /\ Len(edge_list) = 1 /\ IsSelfloop(edge_list[1])
     /\ ~arguments.selfloop_angle_given) =>
        /\ pc = "done"
        /\ edge_list[1] \in DOMAIN edge_paths
        /\ \E direction \in SelfloopAngles :
            \A i \in DOMAIN edge_paths[edge_list[1]] :
                Norm(Sub(edge_paths[edge_list[1]][i],
                         Add(node_positions[edge_list[1][1]],
                             <<arguments.selfloop_radius * direction[1],
                               arguments.selfloop_radius * direction[2]>>)))
                    = arguments.selfloop_radius

C16_AlwaysFinite ==
    /\ pc # "raised"
    /\ \A e \in DOMAIN edge_paths : FinitePath(edge_paths[e])
    /\ \A e \in DOMAIN control_points : FinitePath(control_points[e])

\* C17: when the edge list has more than one connected component, the
\* wrapper calls the layout function exactly once per component, with the
\* edges whose two ends lie in the component, the positions of the nodes of
\* the component and the same parameters; the result is the union of the
\* results of the calls, and every edge is handed to exactly one call.
C17_OneCallPerComponent ==
    (/\ pc = "done" /\ call = "get_bundled_edge_paths"
     /\ Cardinality(GetConnectedComponents(edge_list)) > 1) =>
        /\ \A c \in GetConnectedComponents(edge_list) :
            \E made \in DOMAIN component_calls :
                /\ component_calls[made] = 1
                /\ made.edges = SelectSeq(edge_list, LAMBDA e : e[1] \in c /\ e[2] \in c)
                /\ DOMAIN made.node_positions = c
                /\ \A n \in c : made.node_positions[n] = node_positions[n]
                /\ made.parameters = BundleParameters
        /\ Cardinality(DOMAIN component_calls) = Cardinality(GetConnectedComponents(edge_list))
        /\ DOMAIN edge_paths = UNION {DOMAIN made.edge_paths : made \in DOMAIN component_calls}
        /\ \A made \in DOMAIN component_calls : \A e \in DOMAIN made.edge_paths :
               edge_paths[e] = made.edge_paths[e]
        /\ \A i \in DOMAIN edge_list :
               Cardinality({made \in DOMAIN component_calls :
                               edge_list[i] \in Range(made.edges)}) = 1

C17_Witness ==
    /\ pc = "done" /\ call = "get_bundled_edge_paths"
    /\ Cardinality(DOMAIN component_calls) = 2
    /\ \A made \in DOMAIN component_calls :
           DOMAIN made.edge_paths # {} /\ DOMAIN made.edge_paths # DOMAIN edge_paths

\* C18: curved routing gives every edge that is not a self-loop between 1 and
\* 5 control points: the integer part of 10 * (edge length / canvas scale),
\* raised to 1 when lower and lowered to 5 when higher.
C18_OneToFiveControlPoints ==
    pc = "done" /\ call \in {"get_curved_edge_paths", "_get_curved_edge_paths"} =>
        \A e \in DOMAIN control_points :
            /\ Len(control_points[e]) - 2 \in 1 .. 5
            /\ \E tenfold \in {(((Norm(Sub(node_positions[e[2]], node_positions[e[1]])) * Unit)
                                    \div ISqrt(2 * Unit * Unit)) * 10) \div Unit} :
                   Len(control_points[e]) - 2 =
                       IF tenfold < 1 THEN 1 ELSE IF tenfold > 5 THEN 5 ELSE tenfold

BundlingBySteps == call = "get_bundled_edge_paths, by steps"

\* C19: a subdivision turns a chain of n points into one of 2(n-1)+1 points,
\* the old points in order at the even (0-based) places and, at every odd
\* place, the midpoint of its two neighbours (to the last digit); after c
\* subdivisions every chain has 2^c + 1 points, and all chains are equally
\* long at all times.
C19_Subdivision ==
    BundlingBySteps =>
        /\ \A e \in DOMAIN control_points :
               Len(control_points[e])
                   = 2 ^ (bundle.cycle + IF bundle.expanded THEN 1 ELSE 0) + 1
        /\ \A e, f \in DOMAIN control_points : Len(control_points[e]) = Len(control_points[f])
        /\ bundle.expanded /\ bundle.iteration = 0 =>
               \A e \in DOMAIN control_points :
                   /\ Len(control_points[e]) = 2 * (Len(bundle.previous[e]) - 1) + 1
                   /\ \A i \in DOMAIN bundle.previous[e] :
                          control_points[e][2 * i - 1] = bundle.previous[e][i]
                   /\ \A i \in 1 .. (Len(bundle.previous[e]) - 1) :
                          IF /\ FinitePt(control_points[e][2 * i - 1])
                             /\ FinitePt(control_points[e][2 * i + 1])
                          THEN /\ FinitePt(control_points[e][2 * i])
                               /\ \A c \in 1 .. 2 :
                                      Abs(2 * control_points[e][2 * i][c]
                                          - (control_points[e][2 * i - 1][c]
                                             + control_points[e][2 * i + 1][c])) <= 2
                          ELSE ~FinitePt(control_points[e][2 * i])

C19_Witness ==
    /\ BundlingBySteps /\ bundle.cycle = 1 /\ bundle.expanded /\ bundle.iteration = 0
    /\ \E e \in DOMAIN control_points :
        /\ Len(bundle.previous[e]) = 3 /\ Len(control_points[e]) = 5
        /\ FinitePath(bundle.previous[e])
        /\ 2 * bundle.previous[e][2][1] # bundle.previous[e][1][1] + bundle.previous[e][3][1]
        /\ control_points[e][2] # control_points[e][1]

\* The cycles done so far ran the iterations and the step sizes of the
\* schedule, and a force update only comes after the subdivision of its cycle.
OnSchedule ==
    BundlingBySteps =>
        /\ bundle.cycle <= TotalCycles /\ Len(bundle.schedule) = bundle.cycle
        /\ pc \in {"done", "raised"} => bundle.cycle = TotalCycles
        /\ \A c \in DOMAIN bundle.schedule :
            /\ bundle.schedule[c].iterations =
                   IF c = 1 THEN TotalIterations
                   ELSE (2 * bundle.schedule[c - 1].iterations) \div 3
            /\ bundle.schedule[c].step_size = StepSize \div (2 ^ (c - 1))
        /\ bundle.iteration > 0 =>
            /\ bundle.expanded
            /\ \A e \in DOMAIN control_points :
                   Len(control_points[e]) = 2 ^ (bundle.cycle + 1) + 1

\* C20: get_bundled_edge_paths ends, after exactly total_cycles cycles; cycle
\* c runs I_c force updates, I_0 = total_iterations and I_(c+1) = floor(2/3 *
\* I_c), with the step size step_size / 2^c (50, 33, 22, 14, 9 and 6
\* iterations for the defaults), and the subdivision of a cycle comes before
\* its force updates.
C20_EndsOnSchedule ==
    /\ [](OnSchedule /\ IterationsOfCycles(50, 6) = <<50, 33, 22, 14, 9, 6>>)
    /\ <>(pc \in {"done", "raised"})

C20_Witness ==
    /\ BundlingBySteps /\ pc = "done"
    /\ Len(bundle.schedule) = TotalCycles
    /\ bundle.schedule[1].iterations > bundle.schedule[TotalCycles].iterations
    /\ \E e \in DOMAIN control_points : ~IsStraight(control_points[e])

\* C21: throughout bundling, after every subdivision and every force update,
\* the first and the last control point of every chain are the positions of
\* the edge's source and target node.
C21_AnchorsStay ==
    BundlingBySteps =>
        \A e \in DOMAIN control_points :
            /\ First(control_points[e]) = node_positions[e[1]]
            /\ Last(control_points[e]) = node_positions[e[2]]

\* The length of one vector, also where its squares are out of range.
Length(v) == MatrixNorm(<<v>>)

\* C22: in every force update every control point is clamped on its own: a
\* control point whose net force is longer than the step size moves by the
\* step size, and one whose net force is shorter moves by its net force (to
\* the rounding of the coordinates, 4 units).
C22_ClampedPerPoint ==
    [][ForceUpdateStep =>
        \A F \in {NetForce(control_points,
                           [e \in Range(bundle.order) |-> GetK(e, node_positions, DefaultK)],
                           GetEdgeCompatibility(bundle.order, node_positions,
                                                CompatibilityThreshold))} :
        \A e \in DOMAIN control_points :
            FinitePath(control_points[e]) /\ FinitePath(F[e]) =>
                \A i \in DOMAIN control_points[e] :
                    \E force \in {Length(F[e][i])},
                       moved \in {Length(FSubPt(control_points'[e][i], control_points[e][i]))} :
                        IF force > bundle.step_size
                        THEN Abs(moved - bundle.step_size) <= 4
                        ELSE Abs(moved - force) <= 4]_vars

\* The product of the four factors of a score, all four multiplied.
FullProduct(score) ==
    Times(Times(Times(score.scale, score.position), score.angle), score.visibility)

\* C23: a pair is kept for the force computation if and only if the product
\* of its four factors is at least the threshold, and it is kept with that
\* product: the short-circuit drops what the full product would drop.
C23_KeptIffAtLeastThreshold ==
    pc = "done" /\ call = "_get_edge_compatibility" =>
        \A i \in DOMAIN scores :
            \E product \in {FullProduct(scores[i])} :
                /\ scores[i].kept # Dropped
                       <=> product # NaN /\ ~FLt(product, scores[i].threshold)
                /\ scores[i].kept # Dropped => scores[i].kept = product

\* The point halfway between p0 and p1, p0 + (p1 - p0) / 2.
Halfway(p0, p1) == <<p0[1] + (p1[1] - p0[1]) \div 2, p0[2] + (p1[2] - p0[2]) \div 2>>

\* C24: the midpoint of a Segment is the point halfway between its two ends,
\* and the position compatibility of two segments that have a length is
\* avg / (avg + d), d the distance between the two points halfway.
C24_MidpointHalfway ==
    pc = "done" /\ call = "_get_edge_compatibility" =>
        /\ \A i \in 1 .. 2 :
               Segment(segments[i][1], segments[i][2]).midpoint
                   = Halfway(segments[i][1], segments[i][2])
        /\ NonDegenerate =>
               \E sum \in {Norm(Sub(segments[1][2], segments[1][1]))
                           + Norm(Sub(segments[2][2], segments[2][1]))},
                  d \in {Norm(Sub(Halfway(segments[2][1], segments[2][2]),
                                  Halfway(segments[1][1], segments[1][2])))} :
                   scores[1].position = (sum * Unit) \div (sum + 2 * d)

Solving == call = "_fruchterman_reingold_layout" /\ pc \in {"solving", "done"}

\* The temperature after i iterations is t0 - i * dt, with dt the whole part
\* of t0 / (iterations + 1).
CoolsLinearly ==
    Solving => dt = (solver_t + iteration * dt) \div (arguments.iterations + 1)

\* One iteration of a solver: the temperature goes down by dt, every node
\* that is not fixed moves by at most the temperature it started with, and a
\* fixed node stays.  (A displacement is at least 0.01 long, ten units of the
\* model, and known to one unit: the length of a move is exact to a tenth.)
CappedStep ==
    iteration' = iteration + 1 =>
        /\ solver_t' = solver_t - dt /\ dt' = dt
        /\ \A n \in DOMAIN pos :
               IF n \in arguments.fixed THEN pos'[n] = pos[n]
               ELSE 10 * Norm(Sub(pos'[n], pos[n])) <= 11 * solver_t + 20

OnStraightLine(path, i) ==
    FAddPt(path[1],
           <<FDiv(FMul((i - 1) * Unit, FSub(path[Len(path)][1], path[1][1])),
                  (Len(path) - 1) * Unit),
             FDiv(FMul((i - 1) * Unit, FSub(path[Len(path)][2], path[1][2])),
                  (Len(path) - 1) * Unit)>>)

\* C26: straightening keeps the first and the last point of every path for
\* every fraction, leaves the path as it is for the fraction 0, and for the
\* fraction 1 returns as many points as it got, evenly spaced on the straight
\* line from the first to the last point.
C26_Straightening ==
    BundlingBySteps /\ bundle.straightened =>
        \A e \in DOMAIN control_points :
            /\ DOMAIN control_points = DOMAIN bundle.previous
            /\ First(control_points[e]) = First(bundle.previous[e])
            /\ Last(control_points[e]) = Last(bundle.previous[e])
            /\ bundle.straighten_by = 0 => control_points[e] = bundle.previous[e]
            /\ bundle.straighten_by = Unit =>
                   /\ Len(control_points[e]) = Len(bundle.previous[e])
                   /\ \A i \in DOMAIN control_points[e] :
                          control_points[e][i] = OnStraightLine(bundle.previous[e], i)

C26_Witness ==
    /\ BundlingBySteps /\ bundle.straightened /\ bundle.straighten_by = Unit
    /\ \E e \in DOMAIN control_points :
        /\ FinitePath(bundle.previous[e]) /\ ~IsStraight(bundle.previous[e])
        /\ IsStraight(control_points[e]) /\ Len(control_points[e]) = 2 ^ TotalCycles + 1
    /\ \E e \in DOMAIN control_points : First(control_points[e]) # Last(control_points[e])

\* ------------------------------------------------ DraggableArtists (_main.py)

\* Everything but the handler, the last callback and what it raised is left
\* alone by a callback, and is in its first state when a handler is made.
OutsideHandler ==
    <<second_paths, component_calls, bundle, edge_list, node_positions, pc, edge_width,
      edge_paths, control_points, warned, edge_layout, edge_artists, compatVars, layoutVars>>

NothingRouted ==
    /\ edge_list = <<>>
    /\ node_positions = [n \in Nodes |-> <<0, 0>>]
    /\ pc = "start"
    /\ call = "none"
    /\ edge_width = 0
    /\ edge_paths = NoPaths
    /\ control_points = NoPaths
    /\ second_paths = NoPaths /\ component_calls = NoCalls /\ bundle = NoBundle
    /\ warned = {}
    /\ edge_layout = [name |-> "none", interned |-> TRUE]
    /\ edge_artists = {} /\ raised = "none"
    /\ segments = <<>> /\ scores = <<>>
    /\ NoLayoutCall

\* The artists in the order of _draggable_artists, the cells of the axes an
\* event or an artist can be at, and the alpha an artist is made with (None,
\* or 0.8).
DraggableArtistList == <<"n1", "n2">>
Cells == (0 .. 1) \X (0 .. 1)
NoArtist == "None"
NoAlpha == 0 - 1
BaseAlphas == {NoAlpha, 4 * (Unit \div 5)}

\* A mouse event: inside the axes at a cell, or outside of them.
MouseEvents ==
    [inaxes : {TRUE}, xdata : 0 .. 1, ydata : 0 .. 1]
        \cup {[inaxes |-> FALSE, xdata |-> 0, ydata |-> 0]}
Keys == {"control", "shift"}

\* artist.contains(event)[0]: the event is on the cell of the artist.
Contains(h, artist, event) == h.xy[artist] = <<event.xdata, event.ydata>>

\* A slip that halves the alpha of an artist that is selected already.
SelectArtistAgain(h, artist) ==
    [h EXCEPT !.alpha[artist] = IF @ = NoAlpha THEN Unit \div 2 ELSE @ \div 2,
              !.selected_artists = IF artist \in Range(@) THEN @ ELSE Append(@, artist)]

\* _select_artist: alpha is halved (set to 0.5 if it is None).
SelectArtist(h, artist) ==
    IF artist \in Range(h.selected_artists) THEN h
    ELSE [h EXCEPT !.alpha[artist] = IF @ = NoAlpha THEN Unit \div 2 ELSE @ \div 2,
                   !.selected_artists = Append(@, artist)]

\* _deselect_artist.
DeselectArtist(h, artist) ==
    IF artist \in Range(h.selected_artists)
    THEN [h EXCEPT !.alpha[artist] = h.base_alpha[artist],
                   !.selected_artists = SelectSeq(@, LAMBDA a : a # artist)]
    ELSE h

\* _toggle_select_artist.
ToggleSelectArtist(h, artist) ==
    IF artist \in Range(h.selected_artists) THEN DeselectArtist(h, artist)
    ELSE SelectArtist(h, artist)

\* _deselect_all_artists.
DeselectAllArtists(h) ==
    [h EXCEPT !.alpha = [a \in DOMAIN @ |-> IF a \in Range(h.selected_artists)
                                           THEN h.base_alpha[a] ELSE @[a]],
              !.selected_artists = <<>>]

\* _is_inside_rect.
IsInsideRect(h, x, y) ==
    /\ (IF h.x0 < h.x1 THEN h.x0 ELSE h.x1) <= x /\ x < (IF h.x0 < h.x1 THEN h.x1 ELSE h.x0)
    /\ (IF h.y0 < h.y1 THEN h.y0 ELSE h.y1) <= y /\ y < (IF h.y0 < h.y1 THEN h.y1 ELSE h.y0)

\* _selector_on.
SelectorOn(h) ==
    [h EXCEPT !.rect = [visible |-> TRUE,
                        xy |-> <<IF h.x0 < h.x1 THEN h.x0 ELSE h.x1,
                                 IF h.y0 < h.y1 THEN h.y0 ELSE h.y1>>,
                        width |-> Abs(h.x1 - h.x0), height |-> Abs(h.y1 - h.y0)]]

\* DraggableArtists._on_press.
OnPress(h, event) ==
    IF ~event.inaxes THEN h
    ELSE LET reset == [h EXCEPT !.x0 = event.xdata, !.y0 = event.ydata,
                                !.x1 = event.xdata, !.y1 = event.ydata,
                                !.clicked_artist = NoArtist]
             hits == {i \in DOMAIN h.draggable_artists :
                         Contains(h, h.draggable_artists[i], event)}
             artist == h.draggable_artists[Min(hits)]
             picked == IF artist \in Range(reset.selected_artists)
                       THEN [reset EXCEPT !.clicked_artist = artist]
                       ELSE SelectArtist(IF reset.control_is_held THEN reset
                                         ELSE DeselectAllArtists(reset), artist)
         IN  IF hits # {}
             THEN [picked EXCEPT
                      !.currently_clicking_on_artist = TRUE,
                      !.offset = [a \in Range(picked.selected_artists) |->
                                     Sub(picked.xy[a], <<event.xdata, event.ydata>>)]]
             ELSE [(IF reset.control_is_held THEN reset ELSE DeselectAllArtists(reset))
                      EXCEPT !.currently_selecting = TRUE]

\* The loop of _on_release over the artists inside the selection window.
RECURSIVE SelectInsideWindow(_, _)
SelectInsideWindow(h, i) ==
    IF i > Len(h.draggable_artists) THEN h
    ELSE LET artist == h.draggable_artists[i]
         IN  SelectInsideWindow(
                 IF IsInsideRect(h, h.xy[artist][1], h.xy[artist][2])
                 THEN IF h.control_is_held THEN ToggleSelectArtist(h, artist)
                      ELSE SelectArtist(h, artist)
                 ELSE h,
                 i + 1)

\* DraggableArtists._on_release.
OnRelease(h) ==
    IF h.currently_selecting
    THEN [SelectInsideWindow(h, 1) EXCEPT !.currently_selecting = FALSE,
                                          !.rect.visible = FALSE]
    ELSE IF h.currently_clicking_on_artist
    THEN [(IF h.clicked_artist # NoArtist /\ ~h.currently_dragging
           THEN IF h.control_is_held THEN ToggleSelectArtist(h, h.clicked_artist)
                ELSE SelectArtist(DeselectAllArtists(h), h.clicked_artist)
           ELSE h)
             EXCEPT !.currently_clicking_on_artist = FALSE, !.currently_dragging = FALSE]
    ELSE h

\* _move: every selected artist is put at the cursor plus its offset.
Move(h, event) ==
    [h EXCEPT !.xy = [a \in DOMAIN @ |->
                         IF a \in Range(h.selected_artists)
                         THEN Add(<<event.xdata, event.ydata>>, h.offset[a])
                         ELSE @[a]]]

\* DraggableArtists._on_motion.
OnMotion(h, event) ==
    IF ~event.inaxes THEN h
    ELSE IF h.currently_clicking_on_artist
    THEN Move([h EXCEPT !.currently_dragging = TRUE], event)
    ELSE IF h.currently_selecting
    THEN SelectorOn([h EXCEPT !.x1 = event.xdata, !.y1 = event.ydata])
    ELSE h

\* Where the artists are when the handler is made, and the alphas they are
\* made with: one of them without an alpha, or both with 0.8.
DraggableLayouts ==
    {[a \in Range(DraggableArtistList) |-> IF a = "n1" THEN <<0, 0>> ELSE <<1, 0>>]}
DraggableAlphas ==
    {[a \in Range(DraggableArtistList) |-> IF a = "n1" THEN first ELSE 4 * (Unit \div 5)] :
        first \in BaseAlphas}

\* DraggableArtists.__init__, for two artists on the cells of the axes.
InitDraggable ==
    /\ NothingRouted
    /\ \E base_alpha \in DraggableAlphas,
          xy \in DraggableLayouts :
        handler = [class |-> "DraggableArtists",
                   draggable_artists |-> DraggableArtistList,
                   clicked_artist |-> NoArtist,
                   control_is_held |-> FALSE,
                   currently_clicking_on_artist |-> FALSE,
                   currently_dragging |-> FALSE,
                   currently_selecting |-> FALSE,
                   selected_artists |-> <<>>,
                   offset |-> [a \in {} |-> <<0, 0>>],
                   base_alpha |-> base_alpha,
                   alpha |-> base_alpha,
                   xy |-> xy,
                   rect |-> [visible |-> FALSE, xy |-> <<0, 0>>, width |-> 1, height |-> 1],
                   x0 |-> 0, y0 |-> 0, x1 |-> 0, y1 |-> 0]

ButtonPress ==
    /\ handler.class = "DraggableArtists"
    /\ \E event \in MouseEvents : handler' = OnPress(handler, event)
    /\ call' = "DraggableArtists._on_press"
    /\ UNCHANGED <<OutsideHandler, raised>>

ButtonRelease ==
    /\ handler.class = "DraggableArtists"
    /\ handler' = OnRelease(handler)
    /\ call' = "DraggableArtists._on_release"
    /\ UNCHANGED <<OutsideHandler, raised>>

\* A motion that drags: an artist that has no offset raises a KeyError in
\* _move.  (The artists stay on the cells of the axes.)
MotionNotify ==
    /\ handler.class = "DraggableArtists"
    /\ \E event \in MouseEvents :
        IF /\ event.inaxes /\ handler.currently_clicking_on_artist
           /\ \E a \in Range(handler.selected_artists) : a \notin DOMAIN handler.offset
        THEN /\ handler' = [handler EXCEPT !.currently_dragging = TRUE]
             /\ raised' = "KeyError"
        ELSE /\ handler' = OnMotion(handler, event)
             /\ \A a \in DOMAIN handler.xy : handler'.xy[a] \in Cells
             /\ UNCHANGED raised
    /\ call' = "DraggableArtists._on_motion"
    /\ UNCHANGED OutsideHandler

KeyPress ==
    /\ handler.class = "DraggableArtists"
    /\ \E key \in Keys :
        handler' = IF key = "control" THEN [handler EXCEPT !.control_is_held = TRUE]
                   ELSE handler
    /\ call' = "DraggableArtists._on_key_press"
    /\ UNCHANGED <<OutsideHandler, raised>>

KeyRelease ==
    /\ handler.class = "DraggableArtists"
    /\ \E key \in Keys :
        handler' = IF key = "control" THEN [handler EXCEPT !.control_is_held = FALSE]
                   ELSE handler
    /\ call' = "DraggableArtists._on_key_release"
    /\ UNCHANGED <<OutsideHandler, raised>>

NextDraggable ==
    \/ ButtonPress
    \/ ButtonRelease
    \/ MotionNotify
    \/ KeyPress
    \/ KeyRelease

SpecDraggable == InitDraggable /\ [][NextDraggable]_vars

\* C27: a button release leaves the handler idle (not selecting, not clicking
\* on an artist, not dragging), after two presses without a release as well,
\* so that a motion that follows a release moves no artist and leaves the
\* selection rectangle as it is.
C27_IdleAfterRelease ==
    [][/\ call' = "DraggableArtists._on_release" =>
            /\ ~handler'.currently_selecting
            /\ ~handler'.currently_clicking_on_artist
            /\ ~handler'.currently_dragging
       /\ (call = "DraggableArtists._on_release" /\ call' = "DraggableArtists._on_motion") =>
            /\ handler'.xy = handler.xy
            /\ handler'.rect = handler.rect]_vars

\* Half of an alpha; an artist without an alpha is drawn opaque.
HalfAlpha(alpha) == IF alpha = NoAlpha THEN Unit \div 2 ELSE alpha \div 2

\* C28: every artist is at most once in _selected_artists; an artist that is
\* not selected has the alpha it was made with, a selected one half of it.
C28_SelectedOnceHalfAlpha ==
    handler.class = "DraggableArtists" =>
        \A a \in Range(handler.draggable_artists) :
            /\ Cardinality({i \in DOMAIN handler.selected_artists :
                               handler.selected_artists[i] = a}) <= 1
            /\ handler.alpha[a] = IF a \in Range(handler.selected_artists)
                                  THEN HalfAlpha(handler.base_alpha[a])
                                  ELSE handler.base_alpha[a]

\* A release of the selection window with an artist inside it that was
\* selected already, beside one that was deselected again.
C28_Witness ==
    /\ handler.class = "DraggableArtists"
    /\ call = "DraggableArtists._on_release"
    /\ handler.rect.width > 0 /\ handler.rect.height > 0
    /\ handler.selected_artists = <<"n2">>
    /\ handler.xy["n1"] # <<0, 0>>
    /\ IsInsideRect(handler, handler.xy["n2"][1], handler.xy["n2"][2])
    /\ handler.alpha["n1"] = handler.base_alpha["n1"]

\* ------------------------------------------------- AnnotateOnClick (_main.py)

\* The artists in the order of artist_to_data.keys(), each on a cell of its
\* own, and the kinds of data an artist can come with: a string, a dict of
\* text parameters, or something else (a number).
AnnotatableArtistList == <<"n1", "n2", "e12">>
AnnotatableLayout ==
    [a \in Range(AnnotatableArtistList) |->
        IF a = "n1" THEN <<0, 0>> ELSE IF a = "n2" THEN <<1, 0>> ELSE <<0, 1>>]
DataKinds == {"str", "dict", "float"}

\* AnnotateOnClick._add_annotation: a text object is made for a string and
\* for a dict; the artist is added to annotated_artists whatever its data is.
AddAnnotation(h, artist) ==
    [h EXCEPT
        !.artist_to_text_object =
            IF h.artist_to_data[artist] \in {"str", "dict"}
            THEN [a \in DOMAIN @ \cup {artist} |->
                     IF a = artist THEN [text |-> h.artist_to_data[artist], visible |-> TRUE]
                     ELSE @[a]]
            ELSE @,
        !.annotated_artists = @ \cup {artist}]

\* AnnotateOnClick._remove_annotation, for an artist that has a text object
\* (for one that has none, the lookup in its first line is a KeyError).
RemoveAnnotation(h, artist) ==
    [h EXCEPT
        !.artist_to_text_object = [a \in DOMAIN @ \ {artist} |-> @[a]],
        !.annotated_artists = @ \ {artist}]

HasTextObject(h, artist) == artist \in DOMAIN h.artist_to_text_object

\* A loop over artists that calls _remove_annotation, and again
\* _add_annotation if it redraws, up to the first artist whose removal raises.
RECURSIVE AnnotationLoop(_, _, _, _)
AnnotationLoop(h, order, i, redraw) ==
    IF i > Len(order) THEN [handler |-> h, raised |-> "none"]
    ELSE IF ~HasTextObject(h, order[i]) THEN [handler |-> h, raised |-> "KeyError"]
    ELSE AnnotationLoop(
             IF redraw THEN AddAnnotation(RemoveAnnotation(h, order[i]), order[i])
             ELSE RemoveAnnotation(h, order[i]),
             order, i + 1, redraw)

\* The artists of a list that the event is on, in the order of the list.
ArtistsUnder(h, artists, event) ==
    SelectSeq(artists, LAMBDA a : Contains(h, a, event))

\* AnnotateOnClick.__init__.
InitAnnotate ==
    /\ NothingRouted
    /\ \E artist_to_data \in [Range(AnnotatableArtistList) -> DataKinds] :
        handler = [class |-> "AnnotateOnClick",
                   artist_to_data |-> artist_to_data,
                   annotatable_artists |-> AnnotatableArtistList,
                   annotated_artists |-> {},
                   artist_to_text_object |-> [a \in {} |-> [text |-> "str", visible |-> TRUE]],
                   xy |-> AnnotatableLayout,
                   event |-> [inaxes |-> FALSE, xdata |-> 0, ydata |-> 0]]

\* AnnotateOnClick._on_release.  A set is walked in an order of its own.
AnnotateOnRelease ==
    /\ handler.class = "AnnotateOnClick"
    /\ \E event \in MouseEvents :
       \E h \in {[handler EXCEPT !.event = event]} :
        IF ~event.inaxes
        THEN handler' = h /\ raised' = "none"
        ELSE \E annotated \in {ArtistsUnder(h, a, event) : a \in Orders(h.annotated_artists)},
                annotatable \in {ArtistsUnder(h, h.annotatable_artists, event)} :
            IF annotated # <<>>
            THEN IF HasTextObject(h, annotated[1])
                 THEN handler' = RemoveAnnotation(h, annotated[1]) /\ raised' = "none"
                 ELSE handler' = h /\ raised' = "KeyError"
            ELSE IF annotatable # <<>>
            THEN handler' = AddAnnotation(h, annotatable[1]) /\ raised' = "none"
            ELSE \E order \in Orders(h.annotated_artists) :
                 \E done \in {AnnotationLoop(h, order, 1, FALSE)} :
                    handler' = done.handler /\ raised' = done.raised
    /\ call' = "AnnotateOnClick._on_release"
    /\ UNCHANGED OutsideHandler

\* InteractiveGraph._redraw_annotations, the end of a release that ends a
\* drag: every annotation is removed and added again.
RedrawAnnotations ==
    /\ handler.class = "AnnotateOnClick"
    /\ \E event \in MouseEvents :
       \E h \in {[handler EXCEPT !.event = event]} :
        IF ~event.inaxes
        THEN handler' = h /\ raised' = "none"
        ELSE \E order \in Orders(h.annotated_artists) :
             \E done \in {AnnotationLoop(h, order, 1, TRUE)} :
                handler' = done.handler /\ raised' = done.raised
    /\ call' = "InteractiveGraph._redraw_annotations"
    /\ UNCHANGED OutsideHandler

NextAnnotate ==
    \/ AnnotateOnRelease
    \/ RedrawAnnotations

SpecAnnotate == InitAnnotate /\ [][NextAnnotate]_vars

\* C29: after every release, annotated_artists is the key set of
\* artist_to_text_object whatever the data of the artists is, and no removal
\* has failed; a click on an annotated artist removes its annotation alone, a
\* click on an artist without one adds one for it, and a click on no artist
\* removes them all.
C29_AnnotatedAreKeys ==
    [][call' \in {"AnnotateOnClick._on_release", "InteractiveGraph._redraw_annotations"} =>
        /\ handler'.annotated_artists = DOMAIN handler'.artist_to_text_object
        /\ raised' = "none"
        /\ (call' = "AnnotateOnClick._on_release" /\ handler'.event.inaxes) =>
            \E on \in {{a \in Range(handler.annotatable_artists) :
                           Contains(handler, a, handler'.event)}} :
                IF on \cap handler.annotated_artists # {}
                THEN \E a \in on \cap handler.annotated_artists :
                        handler'.annotated_artists = handler.annotated_artists \ {a}
                ELSE IF on # {}
                THEN \E a \in on :
                        handler'.annotated_artists = handler.annotated_artists \cup {a}
                ELSE handler'.annotated_artists = {}]_vars

\* ------------------------------------------------ EmphasizeOnHover (_main.py)

\* The artists in the order of emphasizeable_artists (node artists, then edge
\* artists), each on a cell of its own, and the key of each in the graph.
EmphasizeableArtistList == <<"n1", "n2", "e12">>
ArtistToKey ==
    [a \in Range(EmphasizeableArtistList) |->
        IF a = "n1" THEN <<1>> ELSE IF a = "n2" THEN <<2>> ELSE <<1, 2>>]

\* deemphasized_artists grows with every motion over an artist; it is walked
\* up to this length.
MaxDeemphasized == 4

\* The artists that stay as they are while the cursor is on an artist: the
\* artist itself and, in a graph, the edges of a node or the nodes of an edge.
EmphasizedArtists(h, selected_artist) ==
    IF h.class = "EmphasizeOnHover" THEN {selected_artist}
    ELSE {selected_artist} \cup
         {a \in Range(h.emphasizeable_artists) :
             IF Len(ArtistToKey[selected_artist]) = 1
             THEN Len(ArtistToKey[a]) = 2
                  /\ ArtistToKey[selected_artist][1] \in Range(ArtistToKey[a])
             ELSE Len(ArtistToKey[a]) = 1
                  /\ ArtistToKey[a][1] \in Range(ArtistToKey[selected_artist])}

\* The loop that sets the alpha of every other artist to a fifth of its
\* first alpha and appends it to deemphasized_artists; None / 5 is a TypeError.
RECURSIVE Deemphasize(_, _, _)
Deemphasize(h, emphasized, i) ==
    IF i > Len(h.emphasizeable_artists) THEN [handler |-> h, raised |-> "none"]
    ELSE LET artist == h.emphasizeable_artists[i]
         IN  IF artist \in emphasized THEN Deemphasize(h, emphasized, i + 1)
             ELSE IF h.artist_to_alpha[artist] = NoAlpha
             THEN [handler |-> h, raised |-> "TypeError"]
             ELSE Deemphasize(
                      [h EXCEPT !.alpha[artist] = h.artist_to_alpha[artist] \div 5,
                                !.deemphasized_artists = Append(@, artist)],
                      emphasized, i + 1)

\* The end of _on_motion: with the cursor on no artist, the artists of
\* deemphasized_artists get their first alpha back.
Reemphasize(h) ==
    [h EXCEPT !.alpha = [a \in DOMAIN @ |-> IF a \in Range(h.deemphasized_artists)
                                           THEN h.artist_to_alpha[a] ELSE @[a]],
              !.deemphasized_artists = <<>>]

\* EmphasizeOnHover.__init__ and EmphasizeOnHoverGraph.__init__.
InitEmphasize ==
    /\ NothingRouted
    /\ \E class \in {"EmphasizeOnHover", "EmphasizeOnHoverGraph"},
          artist_to_alpha \in [Range(EmphasizeableArtistList) -> BaseAlphas] :
        handler = [class |-> class,
                   emphasizeable_artists |-> EmphasizeableArtistList,
                   artist_to_alpha |-> artist_to_alpha,
                   deemphasized_artists |-> <<>>,
                   alpha |-> artist_to_alpha,
                   xy |-> AnnotatableLayout,
                   event |-> [inaxes |-> FALSE, xdata |-> 0, ydata |-> 0]]

\* EmphasizeOnHover._on_motion and EmphasizeOnHoverGraph._on_motion.
EmphasizeOnMotion ==
    /\ handler.class \in {"EmphasizeOnHover", "EmphasizeOnHoverGraph"}
    /\ \E event \in MouseEvents :
       \E h \in {[handler EXCEPT !.event = event]} :
        IF ~event.inaxes
        THEN handler' = h /\ raised' = "none"
        ELSE \E on \in {ArtistsUnder(h, h.emphasizeable_artists, event)} :
            IF on # <<>>
            THEN \E done \in {Deemphasize(h, EmphasizedArtists(h, on[1]), 1)} :
                    /\ Len(done.handler.deemphasized_artists) <= MaxDeemphasized
                    /\ handler' = done.handler
                    /\ raised' = done.raised
            ELSE /\ handler' = IF h.deemphasized_artists # <<>> THEN Reemphasize(h) ELSE h
                 /\ raised' = "none"
    /\ call' = "EmphasizeOnHover._on_motion"
    /\ UNCHANGED OutsideHandler

NextEmphasize == EmphasizeOnMotion

SpecEmphasize == InitEmphasize /\ [][NextEmphasize]_vars

\* A fifth of an alpha; an artist without an alpha is drawn opaque.
FifthAlpha(alpha) == IF alpha = NoAlpha THEN Unit \div 5 ELSE alpha \div 5

\* C30: after a motion inside the axes with the cursor on an artist, that
\* artist (in a graph, with the artists it is joined to) has its first alpha
\* and every other artist a fifth of its first alpha, also when the cursor
\* comes straight from another artist; after a motion on no artist every
\* artist has its first alpha; no alpha is ever below a fifth of the first.
C30_HoveredHasOriginalAlpha ==
    [][(call' = "EmphasizeOnHover._on_motion" /\ handler'.event.inaxes) =>
        \E on \in {ArtistsUnder(handler, handler.emphasizeable_artists, handler'.event)} :
        \A a \in Range(handler.emphasizeable_artists) :
            /\ handler'.alpha[a] =
                  IF on = <<>> \/ a \in EmphasizedArtists(handler, on[1])
                  THEN handler.artist_to_alpha[a]
                  ELSE FifthAlpha(handler.artist_to_alpha[a])
            /\ \/ handler'.alpha[a] = NoAlpha
               \/ handler'.alpha[a] >= FifthAlpha(handler.artist_to_alpha[a])]_vars

====
